---- MODULE Spec2Model ----
(***************************************************************************)
(* Model of the four scheduling clients of the repository:                 *)
(*   aras : src/ds-test/aras_client.py   (ARASScheduler, recv-chunk I/O)   *)
(*   ds   : src/ds-test/client.py        (ARASScheduler, byte-wise I/O)    *)
(*   cl   : src/client.py                (select_best_server)              *)
(*   moto : src/client_moto.py           (moto_choose_server)              *)
(*                                                                         *)
(* Text is modelled as sequences of one-character strings, so that line    *)
(* splitting, strip(), split() and int() are computed, not assumed.        *)
(* Python floats are modelled by exact rationals <<num, den>> (den > 0);   *)
(* float('inf') is <<1, 0>>.  Python None is the empty tuple <<>> (both    *)
(* are falsy, and no decision function returns an empty tuple).            *)
(***************************************************************************)
EXTENDS Integers, Sequences, FiniteSets, TLC

(* ------------------------------------------------------------------ *)
(* Bounds of the model                                                  *)
(* ------------------------------------------------------------------ *)
MaxWaiting == 3
MaxRunning == 4
MaxParses == 2
MaxShort == 2
MaxSent == 14
(* messages the kernel still accepts after the peer has closed *)
MaxAfterClose == 2

(* ------------------------------------------------------------------ *)
(* Program constants                                                    *)
(* ------------------------------------------------------------------ *)
BackfillLimit == 600
DefaultBootup == 60
MotoBootCost == 5000
MaxRecv == 100

SERVER_STATE_INACTIVE == <<"i","n","a","c","t","i","v","e">>
SERVER_STATE_BOOTING == <<"b","o","o","t","i","n","g">>
SERVER_STATE_IDLE == <<"i","d","l","e">>
SERVER_STATE_ACTIVE == <<"a","c","t","i","v","e">>
SERVER_STATE_UNAVAILABLE == <<"u","n","a","v","a","i","l","a","b","l","e">>

NoneVal == <<>>

(* a truth test that looks at the server id instead of the tuple *)
TruthyById(v) == Len(v) > 1 /\ v[2] # 0

(* Python truthiness of a decision value: None and () are falsy, a       *)
(* non-empty tuple is truthy whatever it holds (so (type, 0) is truthy). *)
Truthy(v) == Len(v) > 0

(* ------------------------------------------------------------------ *)
(* Exact rationals standing for Python floats                           *)
(* ------------------------------------------------------------------ *)
Abs(x) == IF x < 0 THEN -x ELSE x

RECURSIVE GCD(_, _)
GCD(a, b) == IF b = 0 THEN a ELSE GCD(b, a % b)

(* the outcome of an expression that raised ZeroDivisionError; it       *)
(* propagates through the arithmetic below                               *)
Raised == <<0, 0>>

Rat(n, d) == LET g == GCD(Abs(n), d) IN IF g = 0 THEN Raised ELSE <<n \div g, d \div g>>
RInt(n) == <<n, 1>>
Inf == <<1, 0>>
IsInf(a) == a[2] = 0
RAdd(a, b) == Rat(a[1] * b[2] + b[1] * a[2], a[2] * b[2])
RSub(a, b) == Rat(a[1] * b[2] - b[1] * a[2], a[2] * b[2])
RMul(a, b) == Rat(a[1] * b[1], a[2] * b[2])
RDiv(a, b) == IF b[1] = 0 THEN Raised
              ELSE IF b[1] > 0 THEN Rat(a[1] * b[2], a[2] * b[1])
              ELSE Rat(-(a[1] * b[2]), a[2] * (-b[1]))
(* comparisons cross-multiply by the denominators without their common factor *)
CommonDen(a, b) == LET g == GCD(a[2], b[2]) IN IF g = 0 THEN 1 ELSE g
RLess(a, b) == a[1] * (b[2] \div CommonDen(a, b)) < b[1] * (a[2] \div CommonDen(a, b))
RLeq(a, b) == a[1] * (b[2] \div CommonDen(a, b)) <= b[1] * (a[2] \div CommonDen(a, b))
RMax(a, b) == IF RLess(a, b) THEN b ELSE a
RMin(a, b) == IF RLess(b, a) THEN b ELSE a
MaxInt(a, b) == IF a < b THEN b ELSE a

(* ------------------------------------------------------------------ *)
(* Text: Python str operations on sequences of characters               *)
(* ------------------------------------------------------------------ *)
NL == "\n"
IsSpace(c) == c \in {" ", "\n", "\t", "\r"}

RECURSIVE SkipSpaces(_, _)
SkipSpaces(s, i) == IF i <= Len(s) /\ IsSpace(s[i]) THEN SkipSpaces(s, i + 1) ELSE i

RECURSIVE BackSpaces(_, _)
BackSpaces(s, j) == IF j >= 1 /\ IsSpace(s[j]) THEN BackSpaces(s, j - 1) ELSE j

(* s.strip() and s.rstrip() *)
Strip(s) ==
    LET i == SkipSpaces(s, 1)
        j == BackSpaces(s, Len(s))
    IN  IF i > j THEN <<>> ELSE SubSeq(s, i, j)

RStrip(s) == SubSeq(s, 1, BackSpaces(s, Len(s)))

(* first index >= from at which character c occurs, 0 if none *)
RECURSIVE IndexOf(_, _, _)
IndexOf(s, c, from) ==
    IF from > Len(s) THEN 0
    ELSE IF s[from] = c THEN from
    ELSE IndexOf(s, c, from + 1)

HasNL(s) == IndexOf(s, NL, 1) # 0

(* s.split(c) *)
RECURSIVE SplitOn(_, _)
SplitOn(s, c) ==
    LET k == IndexOf(s, c, 1) IN
    IF k = 0 THEN <<s>>
    ELSE <<SubSeq(s, 1, k - 1)>> \o SplitOn(SubSeq(s, k + 1, Len(s)), c)

(* s.split(c, 1) *)
Split1(s, c) ==
    LET k == IndexOf(s, c, 1) IN
    IF k = 0 THEN <<s>> ELSE <<SubSeq(s, 1, k - 1), SubSeq(s, k + 1, Len(s))>>

(* index of the first whitespace character at or after i, Len(s)+1 if none *)
RECURSIVE SkipWord(_, _)
SkipWord(s, i) == IF i <= Len(s) /\ ~IsSpace(s[i]) THEN SkipWord(s, i + 1) ELSE i

(* s.split(): the maximal runs of non-whitespace characters *)
RECURSIVE SplitWS(_, _)
SplitWS(s, i) ==
    LET a == SkipSpaces(s, i) IN
    IF a > Len(s) THEN <<>>
    ELSE LET b == SkipWord(s, a) IN <<SubSeq(s, a, b - 1)>> \o SplitWS(s, b)

Words(s) == SplitWS(s, 1)

(* c.join(parts) *)
RECURSIVE Join(_, _)
Join(parts, c) ==
    IF parts = <<>> THEN <<>>
    ELSE IF Len(parts) = 1 THEN parts[1]
    ELSE parts[1] \o <<c>> \o Join(Tail(parts), c)

StartsWith(s, p) == Len(s) >= Len(p) /\ SubSeq(s, 1, Len(p)) = p
EndsWith(s, p) == Len(s) >= Len(p) /\ SubSeq(s, Len(s) - Len(p) + 1, Len(s)) = p

(* p in s *)
Contains(s, p) == \E i \in 1..(Len(s) - Len(p) + 1) : SubSeq(s, i, i + Len(p) - 1) = p

(* s.rfind(p) as a 1-based index, 0 if p does not occur *)
RECURSIVE RFindFrom(_, _, _)
RFindFrom(s, p, i) ==
    IF i < 1 THEN 0
    ELSE IF SubSeq(s, i, i + Len(p) - 1) = p THEN i
    ELSE RFindFrom(s, p, i - 1)

RFind(s, p) == RFindFrom(s, p, Len(s) - Len(p) + 1)

Digits == <<"0", "1", "2", "3", "4", "5", "6", "7", "8", "9">>
IsDigit(c) == \E d \in 1..10 : Digits[d] = c
DigitVal(c) == (CHOOSE d \in 1..10 : Digits[d] = c) - 1

(* int(tok) succeeds: an optional sign followed by at least one digit *)
IsIntTok(t) ==
    LET body == IF t # <<>> /\ t[1] \in {"-", "+"} THEN Tail(t) ELSE t IN
    body # <<>> /\ \A i \in 1..Len(body) : IsDigit(body[i])

RECURSIVE DigitsVal(_, _, _)
DigitsVal(t, i, acc) ==
    IF i > Len(t) THEN acc ELSE DigitsVal(t, i + 1, acc * 10 + DigitVal(t[i]))

ToInt(t) ==
    IF t[1] = "-" THEN -DigitsVal(Tail(t), 1, 0)
    ELSE IF t[1] = "+" THEN DigitsVal(Tail(t), 1, 0)
    ELSE DigitsVal(t, 1, 0)

(* str(n) / "{}".format(n) *)
RECURSIVE NatToStr(_)
NatToStr(n) ==
    IF n < 10 THEN <<Digits[n + 1]>> ELSE NatToStr(n \div 10) \o <<Digits[(n % 10) + 1]>>

IntToStr(n) == IF n < 0 THEN <<"-">> \o NatToStr(-n) ELSE NatToStr(n)

T_DATA == <<"D", "A", "T", "A">>
T_SENT == <<"S", "E", "N", "T">>
T_DOT == <<".">>
T_OK == <<"O", "K">>
T_HELO == <<"H", "E", "L", "O">>
T_AUTH == <<"A", "U", "T", "H">>
T_REDY == <<"R", "E", "D", "Y">>
T_QUIT == <<"Q", "U", "I", "T">>
T_NONE == <<"N", "O", "N", "E">>
T_JOBN == <<"J", "O", "B", "N">>
T_JOBP == <<"J", "O", "B", "P">>
T_JCPL == <<"J", "C", "P", "L">>
T_GETS_ALL == <<"G", "E", "T", "S", " ", "A", "l", "l">>
T_SCHD == <<"S", "C", "H", "D">>
T_CAPABLE == <<"C", "a", "p", "a", "b", "l", "e">>
T_AVAIL == <<"A", "v", "a", "i", "l">>
T_USERNAME == <<"u", "s", "e", "r", "n", "a", "m", "e">>
T_NOK == <<"N", "O", "K">>
T_ERR == <<"E", "R", "R">>
T_GETS == <<"G", "E", "T", "S">>

(* ------------------------------------------------------------------ *)
(* ARAS engine, src/ds-test/aras_client.py                              *)
(* A server record is [type_name, server_id, state, start_time, cores,  *)
(* memory, disk, num_waiting_jobs, num_running_jobs]; a job is          *)
(* [job_id, submit_time, est_run_time, cores, memory, disk].            *)
(* ------------------------------------------------------------------ *)
(* the eligibility test with the disk comparison left out *)
can_server_run_job_NoDisk(server, job) ==
    /\ server.cores >= job.cores
    /\ server.memory >= job.memory

can_server_run_job(server, job) ==
    /\ server.cores >= job.cores
    /\ server.memory >= job.memory
    /\ server.disk >= job.disk

(* the division without its guard: job.x / server.x *)
UtilUnguarded(demand, avail) == Rat(demand, avail)

(* job.x / server.x if server.x > 0 else 0 *)
Util(demand, avail) == IF avail > 0 THEN Rat(demand, avail) ELSE RInt(0)

avg_util(server, job) ==
    RDiv(RAdd(RAdd(Util(job.cores, server.cores), Util(job.memory, server.memory)),
              Util(job.disk, server.disk)),
         RInt(3))

remaining_ratio(server, job) ==
    LET total_capacity == server.cores + server.memory + server.disk
        remaining_total == (server.cores - job.cores) + (server.memory - job.memory)
                           + (server.disk - job.disk)
    IN  IF total_capacity > 0 THEN Rat(remaining_total, total_capacity) ELSE RInt(1)

(* the fit formula rewarding leftover capacity instead of utilisation *)
FitFormulaWaste(server, job) ==
    RAdd(RMul(RSub(RInt(1), avg_util(server, job)), Rat(7, 10)),
         RMul(remaining_ratio(server, job), Rat(3, 10)))

(* avg_util * 0.7 + (1 - remaining_ratio) * 0.3 *)
FitFormula(server, job) ==
    RAdd(RMul(avg_util(server, job), Rat(7, 10)),
         RMul(RSub(RInt(1), remaining_ratio(server, job)), Rat(3, 10)))

calculate_resource_fit_score(server, job) ==
    IF ~can_server_run_job(server, job) THEN RInt(-1) ELSE FitFormula(server, job)

(* the state bonus of calculate_priority_score; <<>> stands for the       *)
(* early 'return -1.0' of the else branch                                 *)
ArasStateBonus(server, current_time) ==
    IF server.state = SERVER_STATE_ACTIVE \/ server.state = SERVER_STATE_IDLE
    THEN <<IF server.state = SERVER_STATE_IDLE THEN 1050 ELSE 1000>>
    ELSE IF server.state = SERVER_STATE_BOOTING
    THEN LET bootup_time == DefaultBootup  \* server.bootup_time is never set: 0 -> 60
             elapsed == MaxInt(0, current_time - server.start_time)
             bootup_remaining == MaxInt(0, bootup_time - elapsed)
         IN  <<IF bootup_remaining <= 10 THEN 800
               ELSE IF bootup_remaining <= 30 THEN 500
               ELSE MaxInt(100, 500 - bootup_remaining * 5)>>
    ELSE IF server.state = SERVER_STATE_INACTIVE THEN <<50>>
    ELSE <<>>

(* 'priority += 50' for an empty server, else minus 5 or 15 per running job *)
LoadTerm(running) ==
    IF running = 0 THEN 50
    ELSE IF running <= 2 THEN -(running * 5)
    ELSE -(running * 15)

calculate_priority_score(server, job, current_time) ==
    IF ~can_server_run_job(server, job) THEN RInt(-1)
    ELSE LET bonus == ArasStateBonus(server, current_time) IN
         IF bonus = <<>> THEN RInt(-1)
         ELSE LET base == bonus[1] - server.num_waiting_jobs * 20
                          + LoadTerm(server.num_running_jobs)
                  fit_score == calculate_resource_fit_score(server, job)
              IN  IF RLess(RInt(0), fit_score)
                  THEN RAdd(RInt(base), RMul(fit_score, RInt(50)))
                  ELSE RInt(base)

(* the loop of find_best_server over the directory in insertion order;   *)
(* acc is <<best_server, best_score>>                                    *)
RECURSIVE ArasBestLoop(_, _, _, _, _)
ArasBestLoop(servers, i, job, current_time, acc) ==
    IF i > Len(servers) THEN acc
    ELSE LET server == servers[i] IN
         IF server.state = SERVER_STATE_UNAVAILABLE
         THEN ArasBestLoop(servers, i + 1, job, current_time, acc)
         ELSE LET score == calculate_priority_score(server, job, current_time) IN
              IF RLess(acc[2], score)
              THEN ArasBestLoop(servers, i + 1, job, current_time,
                                <<(<<server.type_name, server.server_id>>), score>>)
              ELSE ArasBestLoop(servers, i + 1, job, current_time, acc)

find_best_server(servers, job, current_time) ==
    ArasBestLoop(servers, 1, job, current_time, <<NoneVal, RInt(-1)>>)[1]

schedule_job(servers, job, current_time) == find_best_server(servers, job, current_time)

(* candidates.sort(key=score, reverse=True)[0]: Python's sort is stable,  *)
(* also with reverse=True, so the first candidate of maximal score wins.  *)
RECURSIVE FirstMax(_, _, _)
FirstMax(cands, i, best) ==
    IF i > Len(cands) THEN best
    ELSE IF best = 0 \/ RLess(cands[best][2], cands[i][2])
         THEN FirstMax(cands, i + 1, i)
         ELSE FirstMax(cands, i + 1, best)

(* a sort that is not stable: the last candidate of maximal score wins *)
RECURSIVE LastMax(_, _, _)
LastMax(cands, i, best) ==
    IF i > Len(cands) THEN best
    ELSE IF best = 0 \/ RLeq(cands[best][2], cands[i][2])
         THEN LastMax(cands, i + 1, i)
         ELSE LastMax(cands, i + 1, best)

TopCandidateLast(cands) == IF cands = <<>> THEN NoneVal ELSE cands[LastMax(cands, 1, 0)][1]

TopCandidate(cands) == IF cands = <<>> THEN NoneVal ELSE cands[FirstMax(cands, 1, 0)][1]

ArasBackfillScore(server, job) ==
    LET score == calculate_resource_fit_score(server, job) IN
    IF server.num_running_jobs <= 3 THEN RAdd(score, RInt(10)) ELSE score

ArasIsBackfillCandidate(server, job) ==
    /\ server.state = SERVER_STATE_ACTIVE
    /\ can_server_run_job(server, job)
    /\ server.num_running_jobs > 0

RECURSIVE ArasCandidates(_, _, _)
ArasCandidates(servers, i, job) ==
    IF i > Len(servers) THEN <<>>
    ELSE LET server == servers[i]
             rest == ArasCandidates(servers, i + 1, job)
         IN  IF ArasIsBackfillCandidate(server, job)
             THEN <<(<< <<server.type_name, server.server_id>>,
                        ArasBackfillScore(server, job) >>)>> \o rest
             ELSE rest

(* the short-job test excluding the limit itself *)
BackfillTooLongAtLimit(job) == job.est_run_time >= BackfillLimit

BackfillTooLong(job) == job.est_run_time > BackfillLimit

backfill_candidate(servers, job, current_time) ==
    IF BackfillTooLong(job) THEN NoneVal
    ELSE TopCandidate(ArasCandidates(servers, 1, job))

(* ------------------------------------------------------------------ *)
(* ARAS engine, src/ds-test/client.py                                   *)
(* ------------------------------------------------------------------ *)
can_run_job(server, job) ==
    /\ server.cores >= job.cores
    /\ server.memory >= job.memory
    /\ server.disk >= job.disk

DsStateBonus(server) ==
    IF server.state = SERVER_STATE_ACTIVE \/ server.state = SERVER_STATE_IDLE
    THEN <<IF server.state = SERVER_STATE_IDLE THEN 1050 ELSE 1000>>
    ELSE IF server.state = SERVER_STATE_BOOTING THEN <<500>>
    ELSE IF server.state = SERVER_STATE_INACTIVE THEN <<50>>
    ELSE <<>>

calculate_priority(server, job, current_time) ==
    IF ~can_run_job(server, job) THEN RInt(-1)
    ELSE LET bonus == DsStateBonus(server) IN
         IF bonus = <<>> THEN RInt(-1)
         ELSE LET base == bonus[1] - server.num_waiting_jobs * 20
                          + LoadTerm(server.num_running_jobs)
                  fit_score == FitFormula(server, job)
              IN  RAdd(RInt(base), RMul(fit_score, RInt(50)))

RECURSIVE DsBestLoop(_, _, _, _, _)
DsBestLoop(servers, i, job, current_time, acc) ==
    IF i > Len(servers) THEN acc
    ELSE LET server == servers[i] IN
         IF server.state = SERVER_STATE_UNAVAILABLE
         THEN DsBestLoop(servers, i + 1, job, current_time, acc)
         ELSE LET score == calculate_priority(server, job, current_time) IN
              IF RLess(acc[2], score)
              THEN DsBestLoop(servers, i + 1, job, current_time,
                              <<(<<server.type_name, server.server_id>>), score>>)
              ELSE DsBestLoop(servers, i + 1, job, current_time, acc)

ds_find_best_server(servers, job, current_time) ==
    DsBestLoop(servers, 1, job, current_time, <<NoneVal, RInt(-1)>>)[1]

DsBackfillScore(server, job) ==
    IF server.num_running_jobs <= 3 THEN RAdd(avg_util(server, job), RInt(10))
    ELSE avg_util(server, job)

DsIsBackfillCandidate(server, job) ==
    /\ server.state = SERVER_STATE_ACTIVE
    /\ server.num_running_jobs > 0
    /\ can_run_job(server, job)

RECURSIVE DsCandidates(_, _, _)
DsCandidates(servers, i, job) ==
    IF i > Len(servers) THEN <<>>
    ELSE LET server == servers[i]
             rest == DsCandidates(servers, i + 1, job)
         IN  IF DsIsBackfillCandidate(server, job)
             THEN <<(<< <<server.type_name, server.server_id>>,
                        DsBackfillScore(server, job) >>)>> \o rest
             ELSE rest

DsBackfillTooLong(job) == job.est_run_time > BackfillLimit

ds_backfill_candidate(servers, job, current_time) ==
    IF DsBackfillTooLong(job) THEN NoneVal
    ELSE TopCandidate(DsCandidates(servers, 1, job))

(* ------------------------------------------------------------------ *)
(* Engine of src/client.py                                              *)
(* ------------------------------------------------------------------ *)
can_fit_job(server, job) ==
    /\ server.cores >= job.cores
    /\ server.memory >= job.memory
    /\ server.disk >= job.disk

is_immediately_available(server) ==
    \/ server.state = SERVER_STATE_IDLE
    \/ (server.state = SERVER_STATE_ACTIVE /\ server.num_waiting_jobs = 0)

calculate_resource_waste(server, job) ==
    LET waste_cores == MaxInt(0, server.cores - job.cores)
        waste_mem == MaxInt(0, server.memory - job.memory)
        waste_disk == MaxInt(0, server.disk - job.disk)
        total_cores == waste_cores + job.cores
        total_mem == waste_mem + job.memory
        total_disk == waste_disk + job.disk
    IN  IF total_cores = 0 \/ total_mem = 0 \/ total_disk = 0 THEN Inf
        ELSE RDiv(RAdd(RAdd(Rat(waste_cores, total_cores), Rat(waste_mem, total_mem)),
                       Rat(waste_disk, total_disk)),
                  RInt(3))

(* term 1 of calculate_server_score; every bootup_times entry is 60 *)
ClStateBonus(server, current_time) ==
    IF is_immediately_available(server) THEN RInt(2000)
    ELSE IF server.state = SERVER_STATE_BOOTING
    THEN LET bootup_time == DefaultBootup IN
         IF server.start_time > 0
         THEN LET estimated_delay == MaxInt(0, server.start_time - current_time) IN
              IF estimated_delay <= bootup_time /\ estimated_delay >= 0
              THEN RMul(RInt(800),
                        RSub(RInt(1), RMin(RInt(1), Rat(estimated_delay, bootup_time))))
              ELSE RInt(200)
         ELSE RInt(200)
    ELSE IF server.state = SERVER_STATE_INACTIVE THEN RInt(50)
    ELSE RInt(0)

(* terms 4 to 6 of calculate_server_score *)
ClFitTerms(server, job) ==
    LET resource_waste == calculate_resource_waste(server, job) IN
    IF IsInf(resource_waste) THEN RInt(0)
    ELSE LET resource_fit == RDiv(RInt(1), RAdd(RInt(1), RMul(resource_waste, RInt(20))))
             total_avail == server.cores + server.memory + server.disk
             job_total == job.cores + job.memory + job.disk
             utilization == IF total_avail > 0 THEN Rat(job_total, total_avail) ELSE RInt(0)
             bonus == IF total_avail > 0 /\ RLess(Rat(3, 10), utilization)
                      THEN RMul(RInt(100), RMin(RInt(1), utilization))
                      ELSE RInt(0)
         IN  RAdd(RAdd(RSub(RInt(0), RMul(resource_waste, RInt(100))),
                       RMul(resource_fit, RInt(200))),
                  bonus)

calculate_server_score(server, job, current_time) ==
    IF ~can_fit_job(server, job) THEN RInt(-1)
    ELSE RAdd(RAdd(ClStateBonus(server, current_time),
                   RInt(-(server.num_waiting_jobs * 15) - server.num_running_jobs * 8)),
              ClFitTerms(server, job))

RECURSIVE ClValid(_, _, _)
ClValid(servers, i, job) ==
    IF i > Len(servers) THEN <<>>
    ELSE IF can_fit_job(servers[i], job)
         THEN <<servers[i]>> \o ClValid(servers, i + 1, job)
         ELSE ClValid(servers, i + 1, job)

(* returns the chosen server record, or None *)
select_best_server(servers, job, current_time) ==
    LET valid_servers == ClValid(servers, 1, job)
        scored_servers == [k \in 1..Len(valid_servers) |->
                             <<valid_servers[k],
                               calculate_server_score(valid_servers[k], job, current_time)>>]
    IN  IF valid_servers = <<>> THEN NoneVal ELSE TopCandidate(scored_servers)

(* ------------------------------------------------------------------ *)
(* Engine of src/client_moto.py                                         *)
(* ------------------------------------------------------------------ *)
can_host(s, c, m, d) == c <= s.cores /\ m <= s.memory /\ d <= s.disk

MotoLoad(s) == s.num_waiting_jobs + s.num_running_jobs

MotoScore(s) ==
    LET wait == MotoLoad(s)
        cost == IF s.state \in {SERVER_STATE_INACTIVE, SERVER_STATE_BOOTING}
                THEN MotoBootCost ELSE 0
        imbalance == MotoLoad(s) * 2
    IN  wait + cost + imbalance

(* acc is <<best, best_score>>; best_score = <<>> stands for float("inf") *)
RECURSIVE MotoLoop(_, _, _, _)
MotoLoop(servers, i, job, acc) ==
    IF i > Len(servers) THEN acc
    ELSE LET s == servers[i] IN
         IF ~can_host(s, job.cores, job.memory, job.disk)
         THEN MotoLoop(servers, i + 1, job, acc)
         ELSE IF acc[2] = <<>> \/ MotoScore(s) < acc[2][1]
              THEN MotoLoop(servers, i + 1, job,
                            <<(<<s.type_name, s.server_id>>), <<MotoScore(s)>> >>)
              ELSE MotoLoop(servers, i + 1, job, acc)

MotoFallback(best, servers) ==
    IF ~Truthy(best) /\ servers # <<>>
    THEN <<servers[1].type_name, servers[1].server_id>>
    ELSE best

moto_choose_server(job, servers) ==
    MotoFallback(MotoLoop(servers, 1, job, <<NoneVal, <<>> >>)[1], servers)

(* ------------------------------------------------------------------ *)
(* parse_gets_response, the same code in src/ds-test/aras_client.py     *)
(* (65-123) and src/ds-test/client.py (38-78).  The directory is the    *)
(* dict self.servers in insertion order.                                *)
(* ------------------------------------------------------------------ *)
(* a dict that became a list: every parsed record is appended *)
DirPutAppend(dir, rec) == Append(dir, rec)

(* a refresh that keeps the entry a key already has *)
DirPutKeep(dir, rec) ==
    IF \E i \in 1..Len(dir) : dir[i].type_name = rec.type_name /\ dir[i].server_id = rec.server_id
    THEN dir ELSE Append(dir, rec)

(* self.servers[(type_name, server_id)] = server *)
DirPut(dir, rec) ==
    IF \E i \in 1..Len(dir) : dir[i].type_name = rec.type_name /\ dir[i].server_id = rec.server_id
    THEN [i \in 1..Len(dir) |->
            IF dir[i].type_name = rec.type_name /\ dir[i].server_id = rec.server_id
            THEN rec ELSE dir[i]]
    ELSE Append(dir, rec)

(* start_idx: 1 when the first token is SENT *)
StartIdx(parts) == IF Len(parts) > 0 /\ parts[1] = T_SENT THEN 1 ELSE 0

(* the try block succeeds: every int() of it is given a numeral *)
RecordIntsOk(parts, off) ==
    \A k \in {2, 4, 5, 6, 7, 8, 9} : IsIntTok(parts[off + k])

RecordOf(parts, off) ==
    [type_name |-> parts[off + 1], server_id |-> ToInt(parts[off + 2]),
     state |-> parts[off + 3], start_time |-> ToInt(parts[off + 4]),
     cores |-> ToInt(parts[off + 5]), memory |-> ToInt(parts[off + 6]),
     disk |-> ToInt(parts[off + 7]), num_waiting_jobs |-> ToInt(parts[off + 8]),
     num_running_jobs |-> ToInt(parts[off + 9])]

IsDataLine(line) == line = T_DATA \/ StartsWith(line, T_DATA \o <<" ">>)

(* the for loop over the lines; acc is [dir, servers] *)
RECURSIVE ParseGetsLoop(_, _, _, _)
ParseGetsLoop(lines, i, data_started, acc) ==
    IF i > Len(lines) THEN acc
    ELSE LET line == Strip(lines[i]) IN
         IF line = <<>> THEN ParseGetsLoop(lines, i + 1, data_started, acc)
         ELSE IF IsDataLine(line) THEN ParseGetsLoop(lines, i + 1, TRUE, acc)
         ELSE IF ~data_started THEN ParseGetsLoop(lines, i + 1, data_started, acc)
         ELSE IF line = T_DOT THEN acc
         ELSE LET parts == Words(line)
                  off == StartIdx(parts)
              IN  IF Len(parts) >= off + 9 /\ RecordIntsOk(parts, off)
                  THEN ParseGetsLoop(lines, i + 1, data_started,
                                     [dir |-> DirPut(acc.dir, RecordOf(parts, off)),
                                      servers |-> Append(acc.servers, RecordOf(parts, off))])
                  ELSE ParseGetsLoop(lines, i + 1, data_started, acc)

(* returns [dir |-> self.servers afterwards, servers |-> the returned list] *)
parse_gets_response(dir, response) ==
    ParseGetsLoop(SplitOn(Strip(response), NL), 1, FALSE, [dir |-> dir, servers |-> <<>>])

(* ------------------------------------------------------------------ *)
(* The decision step of each session controller                         *)
(* ------------------------------------------------------------------ *)
(* aras_client.py 454-458: backfill first, schedule_job 'if not server' *)
ArasConsults(servers, job) == ~Truthy(backfill_candidate(servers, job, job.submit_time))

ArasChoose(servers, job) ==
    IF ArasConsults(servers, job)
    THEN schedule_job(servers, job, job.submit_time)
    ELSE backfill_candidate(servers, job, job.submit_time)

(* ds-test/client.py 265-267 *)
DsConsults(servers, job) == ~Truthy(ds_backfill_candidate(servers, job, job.submit_time))

DsChoose(servers, job) ==
    IF DsConsults(servers, job)
    THEN ds_find_best_server(servers, job, job.submit_time)
    ELSE ds_backfill_candidate(servers, job, job.submit_time)

(* 'if server:' then SCHD job_id type_name server_id; <<>> is the branch *)
(* that sends nothing                                                    *)
SchdIfServer(server, job) ==
    IF Truthy(server) THEN <<job.job_id, server[1], server[2]>> ELSE NoneVal

(* src/client.py 352-366: 'if servers:' / 'if best_server:' / fallback   *)
(* servers[0]; a server object is truthy                                 *)
ClSchd(servers, job, current_time) ==
    IF servers = <<>> THEN NoneVal
    ELSE LET best_server == select_best_server(servers, job, current_time) IN
         IF best_server # NoneVal
         THEN <<job.job_id, best_server.type_name, best_server.server_id>>
         ELSE <<job.job_id, servers[1].type_name, servers[1].server_id>>

(* client_moto.py 87-90: unpacking None raises, nothing is sent *)
MotoSchd(servers, job) ==
    LET chosen == moto_choose_server(job, servers) IN
    IF chosen = NoneVal THEN NoneVal ELSE <<job.job_id, chosen[1], chosen[2]>>

(* ------------------------------------------------------------------ *)
(* Inputs of the engine specification                                   *)
(* ------------------------------------------------------------------ *)
TypeName == <<"t">>
States == {SERVER_STATE_INACTIVE, SERVER_STATE_BOOTING, SERVER_STATE_IDLE,
           SERVER_STATE_ACTIVE, SERVER_STATE_UNAVAILABLE}
ServerShapes == {<<1, 1, 1>>, <<2, 2, 2>>, <<1, 3, 4>>}
JobShapes == {<<1, 1, 1>>, <<2, 1, 1>>, <<1, 2, 1>>, <<1, 1, 2>>}
WaitingVals == {0, MaxWaiting}
RunningVals == {0, 1, MaxRunning}
EstVals == {BackfillLimit, BackfillLimit + 1}

MkServer(id, st, shape, w, r) ==
    [type_name |-> TypeName, server_id |-> id, state |-> st, start_time |-> 0,
     cores |-> shape[1], memory |-> shape[2], disk |-> shape[3],
     num_waiting_jobs |-> w, num_running_jobs |-> r]

ServersWithId(id) ==
    {MkServer(id, st, sh, w, r) : st \in States, sh \in ServerShapes,
                                  w \in WaitingVals, r \in RunningVals}

Directories ==
    {<<>>} \cup {<<a>> : a \in ServersWithId(0)}
           \cup {<<a, b>> : a \in ServersWithId(0), b \in ServersWithId(1)}

Jobs ==
    {[job_id |-> 1, submit_time |-> 0, est_run_time |-> e,
      cores |-> sh[1], memory |-> sh[2], disk |-> sh[3]] : e \in EstVals, sh \in JobShapes}

(* ------------------------------------------------------------------ *)
(* Inputs of the parser specification: record lines and bulk blocks     *)
(* ------------------------------------------------------------------ *)
RecIdle0 ==
    <<"t", " ", "0", " ", "i", "d", "l", "e", " ", "0", " ", "1", " ", "1",
      " ", "1", " ", "0", " ", "0">>
RecActive1 ==
    <<"t", " ", "1", " ", "a", "c", "t", "i", "v", "e", " ", "0", " ", "2",
      " ", "2", " ", "2", " ", "0", " ", "1">>
RecActive0 ==
    <<"t", " ", "0", " ", "a", "c", "t", "i", "v", "e", " ", "5", " ", "2",
      " ", "2", " ", "2", " ", "1", " ", "1">>
RecSent1 ==
    <<"S", "E", "N", "T", " ", "t", " ", "1", " ", "i", "d", "l", "e", " ",
      "0", " ", "1", " ", "1", " ", "1", " ", "0", " ", "0">>
RecBadId ==
    <<"t", " ", "x", " ", "i", "d", "l", "e", " ", "0", " ", "1", " ", "1",
      " ", "1", " ", "0", " ", "0">>
RecShort ==
    <<"t", " ", "2", " ", "i", "d", "l", "e", " ", "0", " ", "1", " ", "1">>
RecBlank ==
    <<>>
RecExtra2 ==
    <<"t", " ", "2", " ", "b", "o", "o", "t", "i", "n", "g", " ", "3", " ",
      "1", " ", "3", " ", "4", " ", "0", " ", "0", " ", "9", " ", "9">>

RecordLines == {RecIdle0, RecActive1, RecActive0, RecSent1, RecBadId, RecShort, RecBlank,
                RecExtra2}

BlockBodies == {<<>>} \cup {<<a>> : a \in RecordLines}
                      \cup {<<a, b>> : a \in RecordLines, b \in RecordLines}

(* the text of a bulk reply: header line, record lines, sentinel line *)
BlockText(body) ==
    T_DATA \o <<" ">> \o IntToStr(Len(body)) \o <<" ", "9", NL>>
    \o Join(body, NL) \o (IF body = <<>> THEN <<>> ELSE <<NL>>) \o <<".", NL>>

(* the same reply as aras_client.py hands it to the parser: header cut off *)
BlockTextNoHeader(body) == Join(body, NL) \o <<NL, ".">>

Blocks == {BlockText(b) : b \in BlockBodies} \cup {BlockTextNoHeader(b) : b \in BlockBodies}

(* ------------------------------------------------------------------ *)
(* Inputs of the session specification: what the simulator sends        *)
(* ------------------------------------------------------------------ *)
JobE2E ==
    <<"J", "O", "B", "N", " ", "1", " ", "0", " ", "1", "0", "0", " ", "2",
      " ", "1", "0", "2", "4", " ", "1", "0">>
HdrE2E ==
    <<"D", "A", "T", "A", " ", "2", " ", "0">>
RecE2E0 ==
    <<"t", "y", "p", "e", "1", " ", "0", " ", "i", "d", "l", "e", " ", "0",
      " ", "4", " ", "2", "0", "4", "8", " ", "2", "0", " ", "0", " ", "0">>
RecE2E1 ==
    <<"t", "y", "p", "e", "1", " ", "1", " ", "a", "c", "t", "i", "v", "e",
      " ", "0", " ", "4", " ", "2", "0", "4", "8", " ", "2", "0", " ", "1",
      " ", "1">>
Job8 ==
    <<"J", "O", "B", "N", " ", "0", " ", "1", " ", "0", " ", "1", "0", "0",
      " ", "1", " ", "1", " ", "1">>
Job7 ==
    <<"J", "O", "B", "N", " ", "0", " ", "1", " ", "1", "0", "0", " ", "1",
      " ", "1", " ", "1">>
Jcpl ==
    <<"J", "C", "P", "L", " ", "5", " ", "1", " ", "t", " ", "0">>
Hdr2 ==
    <<"D", "A", "T", "A", " ", "2", " ", "9">>
Username ==
    <<"u">>

(* a scenario: the replies to HELO and AUTH, the lines sent in answer to *)
(* REDY (NONE once they are used up), the bulk reply to any GETS,        *)
(* the records of the bulk replies after the first when they differ     *)
(* (later), whether the records are streamed with the header (eager) or  *)
(* only after the client's OK, whether GETS Capable is answered, and whether *)
(* the simulator may fall silent (stalls) or close the connection        *)
(* (closes) in the middle of the session                                 *)
ScenBase == [name |-> "base", helo |-> T_OK, auth |-> T_OK, events |-> <<>>,
             hdr |-> Hdr2, recs |-> <<RecIdle0, RecActive1>>, later |-> <<>>,
             eager |-> FALSE,
             capable |-> TRUE, stalls |-> FALSE, closes |-> FALSE]

ScenE2E == [ScenBase EXCEPT !.name = "e2e", !.events = <<JobE2E>>, !.hdr = HdrE2E,
                            !.recs = <<RecE2E0, RecE2E1>>]
ScenJob8 == [ScenBase EXCEPT !.name = "job8", !.events = <<Job8, Jcpl>>]
ScenJob7 == [ScenBase EXCEPT !.name = "job7", !.events = <<Job7, Jcpl>>]
ScenE2EEager == [ScenE2E EXCEPT !.name = "e2e-eager", !.eager = TRUE]

(* a simulator that answers GETS Capable with ERR *)
ScenNoCapable == [ScenBase EXCEPT !.name = "nocapable", !.events = <<Job8>>,
                                  !.capable = FALSE]

(* the same job line announced as a resubmission *)
AsJobp(line) == T_JOBP \o SubSeq(line, 5, Len(line))

ScenJobp == [ScenJob8 EXCEPT !.name = "jobp", !.events = <<AsJobp(Job8), Jcpl>>]
ScenJobpNoCapable == [ScenNoCapable EXCEPT !.name = "jobp-nocapable",
                                           !.events = <<AsJobp(Job8)>>]

(* a bulk reply whose first record has seven fields *)
ScenShortRec == [ScenBase EXCEPT !.name = "shortrec", !.events = <<Job8>>,
                                 !.recs = <<RecShort, RecActive1>>]
ScenShortRecEager == [ScenShortRec EXCEPT !.name = "shortrec-eager", !.eager = TRUE]

(* a simulator that answers the bulk query with ERR instead of a header *)
ScenErrHdr == [ScenBase EXCEPT !.name = "errhdr", !.events = <<Job8>>, !.hdr = T_ERR]

(* a simulator that may fall silent *)
ScenStall == [ScenBase EXCEPT !.name = "stall", !.events = <<Job8>>, !.stalls = TRUE]

(* a simulator that may close the connection instead of answering REDY *)
ScenClose == [ScenBase EXCEPT !.name = "close", !.events = <<Job8>>, !.closes = TRUE]

(* two jobs; the bulk reply for the second lists one server only, which *)
(* is booting by then                                                    *)
Job8Second ==
    <<"J", "O", "B", "N", " ", "0", " ", "2", " ", "0", " ", "1", "0", "0",
      " ", "1", " ", "1", " ", "1">>
RecBooting1 ==
    <<"t", " ", "1", " ", "b", "o", "o", "t", "i", "n", "g", " ", "0", " ", "2",
      " ", "2", " ", "2", " ", "0", " ", "0">>

ScenTwoJobs == [ScenBase EXCEPT !.name = "twojobs", !.events = <<Job8, Job8Second>>,
                                !.later = <<RecBooting1>>]
ScenTwoJobsEager == [ScenTwoJobs EXCEPT !.name = "twojobs-eager", !.eager = TRUE]

(* resource notices, then an empty line, then a completion notice *)
Resf ==
    <<"R", "E", "S", "F", " ", "t", " ", "0", " ", "5">>
Resr ==
    <<"R", "E", "S", "R", " ", "t", " ", "0", " ", "9">>

ScenNotices == [ScenBase EXCEPT !.name = "notices", !.events = <<Resf, Resr, <<>>, Jcpl>>]

(* a simulator that refuses the authentication, one whose greeting is    *)
(* not the line OK                                                       *)
ScenAuthErr == [ScenBase EXCEPT !.name = "autherr", !.auth = T_ERR, !.events = <<Job8>>]
ScenHeloNok == [ScenBase EXCEPT !.name = "helonok", !.helo = T_NOK, !.events = <<Job8>>]

Runs == {<<v, sc>> : v \in {"aras", "ds", "cl", "moto"}, sc \in {ScenE2E, ScenJob8}}
        \cup {<<"moto", ScenJob7>>, <<"moto", ScenE2EEager>>, <<"cl", ScenNoCapable>>}
        \cup {<<v, ScenAuthErr>> : v \in {"aras", "ds", "moto"}}
        \cup {<<"ds", ScenHeloNok>>}
        \cup {<<"moto", ScenJobp>>, <<"ds", ScenJobp>>, <<"cl", ScenJobpNoCapable>>}
        \cup {<<"cl", ScenShortRec>>, <<"moto", ScenShortRecEager>>}
        \cup {<<"aras", ScenErrHdr>>, <<"ds", ScenErrHdr>>}
        \cup {<<v, ScenStall>> : v \in {"aras", "ds", "cl"}}
        \cup {<<v, ScenClose>> : v \in {"moto", "cl", "aras"}}
        \cup {<<"ds", ScenTwoJobs>>, <<"cl", ScenTwoJobs>>, <<"moto", ScenTwoJobsEager>>}
        \cup {<<"ds", ScenNotices>>, <<"aras", ScenNotices>>}

(* record lines then the sentinel line, each with its newline *)
RECURSIVE LinesText(_)
LinesText(ls) == IF ls = <<>> THEN <<>> ELSE ls[1] \o <<NL>> \o LinesText(Tail(ls))

BulkBody(recs) == LinesText(recs) \o <<".", NL>>

VARIABLES job, servers, out, variant, pc, wire, inbox, sent, sim, loc, hist

vars == <<job, servers, out, variant, pc, wire, inbox, sent, sim, loc, hist>>

(* the session variables outside a session *)
NoSession ==
    /\ variant = "none"
    /\ pc = "off"
    /\ wire = <<>>
    /\ inbox = <<>>
    /\ sent = <<>>
    /\ sim = [on |-> FALSE]
    /\ loc = [buffer |-> <<>>]
    /\ hist = [on |-> FALSE]

sessionVars == <<variant, pc, wire, inbox, sent, sim, loc, hist>>

NoOut == [op |-> "none"]

Init ==
    /\ job \in Jobs
    /\ servers \in Directories
    /\ out = NoOut
    /\ NoSession

(* both ARAS engine functions and the controller's choice between them *)
ArasEngine ==
    /\ out = NoOut
    /\ out' = [op |-> "aras",
               bf |-> backfill_candidate(servers, job, job.submit_time),
               fb |-> find_best_server(servers, job, job.submit_time),
               consulted |-> ArasConsults(servers, job),
               chosen |-> ArasChoose(servers, job),
               schd |-> SchdIfServer(ArasChoose(servers, job), job),
               scores |-> [k \in 1..Len(servers) |->
                             calculate_priority_score(servers[k], job, job.submit_time)]]
    /\ UNCHANGED <<job, servers, sessionVars>>

DsEngine ==
    /\ out = NoOut
    /\ out' = [op |-> "ds",
               bf |-> ds_backfill_candidate(servers, job, job.submit_time),
               fb |-> ds_find_best_server(servers, job, job.submit_time),
               consulted |-> DsConsults(servers, job),
               chosen |-> DsChoose(servers, job),
               schd |-> SchdIfServer(DsChoose(servers, job), job),
               scores |-> [k \in 1..Len(servers) |->
                             calculate_priority(servers[k], job, job.submit_time)]]
    /\ UNCHANGED <<job, servers, sessionVars>>

ClEngine ==
    /\ out = NoOut
    /\ out' = [op |-> "cl",
               chosen |-> LET b == select_best_server(servers, job, job.submit_time)
                          IN  IF b = NoneVal THEN NoneVal
                              ELSE <<b.type_name, b.server_id>>,
               schd |-> ClSchd(servers, job, job.submit_time),
               scores |-> [k \in 1..Len(servers) |->
                             calculate_server_score(servers[k], job, job.submit_time)]]
    /\ UNCHANGED <<job, servers, sessionVars>>

MotoEngine ==
    /\ out = NoOut
    /\ out' = [op |-> "moto",
               best |-> MotoLoop(servers, 1, job, <<NoneVal, <<>> >>)[1],
               chosen |-> moto_choose_server(job, servers),
               schd |-> MotoSchd(servers, job)]
    /\ UNCHANGED <<job, servers, sessionVars>>

Next == ArasEngine \/ DsEngine \/ ClEngine \/ MotoEngine

Spec == Init /\ [][Next]_vars

(* ------------------------------------------------------------------ *)
(* Parser specification: bulk blocks parsed into one directory          *)
(* ------------------------------------------------------------------ *)
AnyJob == [job_id |-> 1, submit_time |-> 0, est_run_time |-> BackfillLimit,
           cores |-> 1, memory |-> 1, disk |-> 1]

InitParse ==
    /\ job = AnyJob
    /\ servers = <<>>
    /\ out = [op |-> "parse", n |-> 0, block |-> <<>>, parsed |-> <<>>, before |-> <<>>]
    /\ NoSession

ParseGets ==
    /\ out.n < MaxParses
    /\ \E b \in Blocks :
        LET r == parse_gets_response(servers, b) IN
        /\ servers' = r.dir
        /\ out' = [op |-> "parse", n |-> out.n + 1, block |-> b, parsed |-> r.servers,
                   before |-> servers]
    /\ UNCHANGED <<job, sessionVars>>

NextParse == ParseGets

SpecParse == InitParse /\ [][NextParse]_vars

(* ------------------------------------------------------------------ *)
(* Properties                                                          *)
(* ------------------------------------------------------------------ *)
KeyOf(s) == <<s.type_name, s.server_id>>

(* the eligibility filter: not unavailable, and enough on every axis *)
Eligible(s, j) ==
    /\ s.state # SERVER_STATE_UNAVAILABLE
    /\ s.cores >= j.cores
    /\ s.memory >= j.memory
    /\ s.disk >= j.disk

Fits(s, j) == s.cores >= j.cores /\ s.memory >= j.memory /\ s.disk >= j.disk

Indexes == 1..Len(servers)

(* C1: in both ARAS engines neither backfill_candidate nor               *)
(* find_best_server returns the key of a server that is unavailable or   *)
(* short of cores, memory or disk for the job.                           *)
C1_EligibilityMonotonicity ==
    out.op \in {"aras", "ds"} =>
        \A k \in Indexes :
            ~Eligible(servers[k], job) =>
                /\ out.bf # KeyOf(servers[k])
                /\ out.fb # KeyOf(servers[k])

(* an ARAS decision was taken for the second server while the first one  *)
(* lacks only disk and would otherwise score higher (idle, empty)        *)
C1_Witness ==
    /\ out.op = "aras"
    /\ Len(servers) = 2
    /\ servers[1].state = SERVER_STATE_IDLE
    /\ servers[1].cores >= job.cores /\ servers[1].memory >= job.memory
    /\ servers[1].disk < job.disk
    /\ servers[2].state = SERVER_STATE_INACTIVE
    /\ out.fb = KeyOf(servers[2])

(* C2 (as claimed): select_best_server and moto_choose_server never      *)
(* return a server whose state is unavailable.                           *)
C2_UnavailableNeverChosen ==
    out.op \in {"cl", "moto"} =>
        \A k \in Indexes :
            servers[k].state = SERVER_STATE_UNAVAILABLE => out.chosen # KeyOf(servers[k])

(* C3 (as claimed): when no server passes the eligibility filter every   *)
(* decision function returns none.                                       *)
C3_NoCandidateNone ==
    (out.op # "none" /\ \A k \in Indexes : ~Eligible(servers[k], job))
        => out.chosen = NoneVal

(* C4: a decision naming server id 0 is a real decision.  In the ARAS    *)
(* controllers a backfill result is kept as it is, find_best_server's    *)
(* result is used only when backfill returned none, every non-none       *)
(* decision is emitted as SCHD job type id, and nothing is emitted only  *)
(* when the engine returned none; moto's fallback replaces the loop's    *)
(* best only when that is none.                                          *)
C4_IdZeroIsADecision ==
    /\ out.op \in {"aras", "ds"} =>
        /\ out.bf # NoneVal => out.chosen = out.bf
        /\ out.bf = NoneVal => out.chosen = out.fb
        /\ out.chosen # NoneVal => out.schd = <<job.job_id, out.chosen[1], out.chosen[2]>>
        /\ out.schd = NoneVal => (out.bf = NoneVal /\ out.fb = NoneVal)
    /\ out.op = "moto" =>
        /\ out.best # NoneVal => out.chosen = out.best
        /\ out.chosen # NoneVal => out.schd = <<job.job_id, out.chosen[1], out.chosen[2]>>

(* backfill returned (t, 0) although find_best_server prefers server 1,  *)
(* and SCHD 1 t 0 is what is emitted                                     *)
C4_Witness ==
    /\ out.op = "aras"
    /\ out.bf = <<TypeName, 0>>
    /\ out.fb = <<TypeName, 1>>
    /\ out.schd = <<1, TypeName, 0>>

(* C5 (as claimed): the score of a server that fails the eligibility     *)
(* filter is strictly below the score of every server that passes it.    *)
C5_SentinelOrdering ==
    out.op \in {"aras", "ds", "cl"} =>
        \A a, b \in Indexes :
            (~Eligible(servers[a], job) /\ Eligible(servers[b], job))
                => RLess(out.scores[a], out.scores[b])

(* resource waste as the claim defines it: the mean over the three axes  *)
(* of (available - demand) / available                                   *)
Waste(s, j) ==
    RDiv(RAdd(RAdd(Rat(s.cores - j.cores, s.cores), Rat(s.memory - j.memory, s.memory)),
              Rat(s.disk - j.disk, s.disk)),
         RInt(3))

(* total demand over total available capacity *)
DemandRatio(s, j) == Rat(j.cores + j.memory + j.disk, s.cores + s.memory + s.disk)

SameLoadFields(a, b) ==
    /\ a.state = b.state
    /\ a.start_time = b.start_time
    /\ a.num_waiting_jobs = b.num_waiting_jobs
    /\ a.num_running_jobs = b.num_running_jobs

(* C6 (as claimed): of two eligible servers with the same state, start   *)
(* time and job counts, the one with strictly less waste scores          *)
(* strictly higher.                                                      *)
C6_BestFitOrdering ==
    out.op \in {"aras", "ds", "cl"} =>
        \A a, b \in Indexes :
            ( /\ Eligible(servers[a], job) /\ Eligible(servers[b], job)
              /\ SameLoadFields(servers[a], servers[b])
              /\ RLess(Waste(servers[a], job), Waste(servers[b], job)) )
                => RLess(out.scores[b], out.scores[a])

(* C6 (amended): the same, provided the server with less waste also has  *)
(* a ratio of total demand to total available capacity that is not       *)
(* smaller than the other's.                                             *)
C6_BestFitOrderingAmended ==
    out.op \in {"aras", "ds", "cl"} =>
        \A a, b \in Indexes :
            ( /\ Eligible(servers[a], job) /\ Eligible(servers[b], job)
              /\ SameLoadFields(servers[a], servers[b])
              /\ RLess(Waste(servers[a], job), Waste(servers[b], job))
              /\ RLeq(DemandRatio(servers[b], job), DemandRatio(servers[a], job)) )
                => RLess(out.scores[b], out.scores[a])

(* two eligible booting servers, the first an exact fit, the second      *)
(* twice as large, scored by src/client.py                               *)
C6_Witness ==
    /\ out.op = "cl"
    /\ Len(servers) = 2
    /\ Eligible(servers[1], job) /\ Eligible(servers[2], job)
    /\ SameLoadFields(servers[1], servers[2])
    /\ servers[1].state = SERVER_STATE_BOOTING
    /\ RLess(Waste(servers[1], job), Waste(servers[2], job))
    /\ RLeq(DemandRatio(servers[2], job), DemandRatio(servers[1], job))
    /\ RLess(out.scores[2], out.scores[1])

BackfillSet ==
    {KeyOf(servers[k]) : k \in {i \in Indexes :
        /\ servers[i].state = SERVER_STATE_ACTIVE
        /\ servers[i].num_running_jobs > 0
        /\ Fits(servers[i], job)}}

C8_IdempotentParsing ==
    (out.op = "parse" /\ out.n > 0) =>
        parse_gets_response(servers, out.block).dir = servers

(* a block with two records of the same key was parsed into a directory  *)
(* that already held that key with other field values                    *)
C8_Witness ==
    /\ out.op = "parse"
    /\ out.n = 2
    /\ Len(out.parsed) = 2
    /\ out.parsed[1].server_id = 0 /\ out.parsed[2].server_id = 0
    /\ out.parsed[1] # out.parsed[2]
    /\ Len(servers) = 2
    /\ servers[1] = out.parsed[2]

(* ================================================================== *)
(* The session: one client variant talking to the simulator            *)
(* ================================================================== *)
SP == <<" ">>

InitSession ==
    /\ job = NoneVal
    /\ servers = <<>>
    /\ out = NoOut
    /\ \E r \in Runs :
          /\ variant = r[1]
          /\ sim = [on |-> TRUE, scen |-> r[2], events |-> r[2].events,
                    awaiting |-> FALSE, served |-> 0, closed |-> FALSE,
                    stalled |-> FALSE, late |-> 0]
    /\ pc = "start"
    /\ wire = <<>>
    /\ inbox = <<>>
    /\ sent = <<>>
    /\ loc = [buffer |-> <<>>]
    /\ hist = [on |-> TRUE, shorts |-> 0, shortAt |-> {}, overlap |-> FALSE,
               parsed |-> <<>>, gets |-> 0, left |-> <<>>, early |-> FALSE,
               noneDue |-> -1, noneAt |-> -1]

(* ------------------------------------------------------------------ *)
(* The simulator, one client line at a time                             *)
(* ------------------------------------------------------------------ *)
Min(a, b) == IF a < b THEN a ELSE b

(* the records and the header of the bulk reply number n of a scenario *)
RecsOf(sc, n) == IF n > 1 /\ sc.later # <<>> THEN sc.later ELSE sc.recs

HdrOf(sc, n) ==
    IF n > 1 /\ sc.later # <<>>
    THEN T_DATA \o <<" ">> \o IntToStr(Len(sc.later)) \o <<" ", "9">>
    ELSE sc.hdr

(* bulk queries are counted up to the second *)
NextServed == Min(sim.served + 1, 2)

SimReply(line) ==
    LET w == Words(line)
        cmd == IF w = <<>> THEN <<>> ELSE w[1]
        sc == sim.scen IN
    IF sim.awaiting
    THEN IF cmd = T_OK
         THEN [text |-> BulkBody(RecsOf(sc, sim.served)),
               sim |-> [sim EXCEPT !.awaiting = FALSE]]
         ELSE [text |-> T_ERR \o <<NL>>, sim |-> [sim EXCEPT !.awaiting = FALSE]]
    ELSE IF cmd = T_HELO
    THEN [text |-> sc.helo \o <<NL>>, sim |-> sim]
    ELSE IF cmd = T_AUTH
    THEN [text |-> sc.auth \o <<NL>>, sim |-> sim]
    ELSE IF cmd = T_SCHD
    THEN [text |-> T_OK \o <<NL>>, sim |-> sim]
    ELSE IF cmd = T_REDY
    THEN IF sim.events = <<>>
         THEN [text |-> T_NONE \o <<NL>>, sim |-> sim]
         ELSE [text |-> Head(sim.events) \o <<NL>>,
               sim |-> [sim EXCEPT !.events = Tail(@)]]
    ELSE IF cmd = T_GETS
    THEN IF Len(w) > 1 /\ w[2] = T_CAPABLE /\ ~sc.capable
         THEN [text |-> T_ERR \o <<NL>>, sim |-> sim]
         ELSE IF sc.eager
         THEN [text |-> HdrOf(sc, NextServed) \o <<NL>> \o BulkBody(RecsOf(sc, NextServed)),
               sim |-> [sim EXCEPT !.served = NextServed]]
         ELSE [text |-> HdrOf(sc, NextServed) \o <<NL>>,
               sim |-> [sim EXCEPT !.served = NextServed,
                                   !.awaiting = StartsWith(sc.hdr, T_DATA)]]
    ELSE IF cmd = T_OK /\ sc.eager
    THEN [text |-> <<>>, sim |-> sim]
    ELSE IF cmd = T_QUIT
    THEN [text |-> T_QUIT \o <<NL>>, sim |-> [sim EXCEPT !.closed = TRUE]]
    ELSE [text |-> T_ERR \o <<NL>>, sim |-> sim]

SimStep ==
    /\ sim.on /\ ~sim.closed /\ ~sim.stalled
    /\ inbox # <<>>
    /\ LET r == SimReply(Head(inbox)) IN
          /\ wire' = wire \o r.text
          /\ sim' = r.sim
    /\ inbox' = Tail(inbox)
    /\ hist' = IF hist.noneDue = -1 /\ SimReply(Head(inbox)).text = T_NONE \o <<NL>>
               THEN [hist EXCEPT !.noneDue = Len(wire) + Len(T_NONE) + 1]
               ELSE hist
    /\ UNCHANGED <<job, servers, out, variant, pc, sent, loc>>

(* the simulator stops sending, at any point after it has answered HELO  *)
(* and AUTH, and keeps the connection open                               *)
SimStall ==
    /\ sim.on /\ sim.scen.stalls /\ ~sim.stalled /\ ~sim.closed
    /\ Len(sent) - Len(inbox) >= 2
    /\ sim' = [sim EXCEPT !.stalled = TRUE]
    /\ UNCHANGED <<job, servers, out, variant, pc, wire, inbox, sent, loc, hist>>

(* the simulator closes the connection instead of answering a REDY *)
SimClose ==
    /\ sim.on /\ sim.scen.closes /\ ~sim.closed /\ ~sim.stalled /\ ~sim.awaiting
    /\ inbox # <<>> /\ StartsWith(Head(inbox), T_REDY)
    /\ sim' = [sim EXCEPT !.closed = TRUE]
    /\ inbox' = Tail(inbox)
    /\ UNCHANGED <<job, servers, out, variant, pc, wire, sent, loc, hist>>

(* ------------------------------------------------------------------ *)
(* What a blocking read can return                                      *)
(* ------------------------------------------------------------------ *)
(* the peer has closed and everything it sent has been read *)
AtEOF == sim.closed /\ wire = <<>>

(* the client's state while one handler runs: outq collects what it sends *)
Cs0 == [pc |-> pc, loc |-> loc, outq |-> <<>>, servers |-> servers, job |-> job,
        parsed |-> hist.parsed, gets |-> hist.gets]

Send(cs, line) == [cs EXCEPT !.outq = Append(@, line)]

Goto(cs, label) == [cs EXCEPT !.pc = label]

RECURSIVE HasRequest(_)
(* some message of the sequence is a REDY, a GETS or a SCHD *)
HasRequest(msgs) ==
    IF msgs = <<>> THEN FALSE
    ELSE Words(msgs[1])[1] \in {T_REDY, T_GETS, T_SCHD} \/ HasRequest(Tail(msgs))

RECURSIVE Requests(_)
(* how many of the messages are a REDY, a GETS or a SCHD *)
Requests(msgs) ==
    IF msgs = <<>> THEN 0
    ELSE (IF HasRequest(<<msgs[1]>>) THEN 1 ELSE 0) + Requests(Tail(msgs))

(* the handler has run up to its next blocking call: rest is what is left *)
(* unread on the socket, short tells whether the read returned less than   *)
(* was available                                                          *)
Delivered(cs, rest, short) ==
    /\ Len(sent) + Len(cs.outq) <= MaxSent
    /\ sim.closed => sim.late + Len(cs.outq) <= MaxAfterClose
    /\ pc' = cs.pc
    /\ loc' = cs.loc
    /\ servers' = cs.servers
    /\ job' = cs.job
    /\ wire' = rest
    /\ inbox' = inbox \o cs.outq
    /\ sent' = sent \o cs.outq
    /\ hist' = [hist EXCEPT
                  !.parsed = cs.parsed,
                  !.gets = cs.gets,
                  !.early = @ \/ (HasRequest(cs.outq)
                                   /\ (rest # <<>> \/ inbox # <<>> \/ Requests(cs.outq) > 1)),
                  !.left = IF cs.gets > hist.gets THEN rest ELSE @,
                  !.noneDue = IF @ > 0 THEN @ - Min(@, Len(wire) - Len(rest)) ELSE @,
                  !.noneAt = IF hist.noneDue > 0 /\ Len(wire) - Len(rest) >= hist.noneDue
                             THEN Len(sent) ELSE @,
                  !.shorts = IF short THEN @ + 1 ELSE @,
                  !.shortAt = IF short THEN @ \cup {pc} ELSE @,
                  !.overlap = @ \/ (cs.outq # <<>> /\ cs.outq # <<T_QUIT>>
                                     /\ (rest # <<>> \/ inbox # <<>> \/ Len(cs.outq) > 1))]
    /\ sim' = [sim EXCEPT !.late = IF sim.closed THEN @ + Len(cs.outq) ELSE @]
    /\ UNCHANGED <<out, variant>>

(* the peer has closed and one of the sends of the handler raises: the    *)
(* messages before it went out, the exception ends the session           *)
SendRaises(cs, rest, short) ==
    /\ sim.closed /\ cs.outq # <<>>
    /\ \E i \in 0..(Len(cs.outq) - 1) :
          /\ sim.late + i <= MaxAfterClose
          /\ inbox' = inbox \o SubSeq(cs.outq, 1, i)
          /\ sent' = sent \o SubSeq(cs.outq, 1, i)
          /\ sim' = [sim EXCEPT !.late = @ + i]
    /\ pc' = "error"
    /\ loc' = loc
    /\ wire' = rest
    /\ UNCHANGED <<job, servers, out, variant, hist>>

Commit(cs, rest, short) == Delivered(cs, rest, short) \/ SendRaises(cs, rest, short)

SchdLine(job_id, type_name, server_id) ==
    T_SCHD \o SP \o job_id \o SP \o type_name \o SP \o server_id

(* ------------------------------------------------------------------ *)
(* ds-test/client.py: communicate, read_line, read_until_dot            *)
(* ------------------------------------------------------------------ *)
(* read_line returns None (<<>>) at end of stream, else <<line>>; the    *)
(* bytes are taken one at a time, so a line is returned exactly when its *)
(* newline has arrived                                                   *)
ReadLineReady == HasNL(wire) \/ sim.closed

read_line ==
    IF HasNL(wire)
    THEN LET i == IndexOf(wire, NL, 1) IN
         [line |-> <<SubSeq(wire, 1, i - 1)>>, rest |-> SubSeq(wire, i + 1, Len(wire))]
    ELSE [line |-> NoneVal, rest |-> <<>>]

(* 'not response': None or the empty string *)
LineFalsy(l) == l = NoneVal \/ l[1] = <<>>

DsLoc == [buffer |-> <<>>, data_header |-> NoneVal, lines |-> <<>>]

DsLoopTop(cs) == Goto(Send(cs, T_REDY), "D_redy")

DsQuit(cs) == Goto(Send(cs, T_QUIT), "done")

DsHello ==
    /\ variant = "ds" /\ pc = "start"
    /\ Commit([Goto(Send(Cs0, T_HELO), "D_helo") EXCEPT !.loc = DsLoc], wire, FALSE)

DsHandshake(l, cs) ==
    IF LineFalsy(l) \/ ~Contains(l[1], T_OK)
    THEN Goto(cs, "done")
    ELSE IF cs.pc = "D_helo"
    THEN Goto(Send(cs, T_AUTH \o SP \o Username), "D_auth")
    ELSE DsLoopTop(cs)

DsHelo ==
    /\ variant = "ds" /\ pc \in {"D_helo", "D_auth"}
    /\ ReadLineReady
    /\ Commit(DsHandshake(read_line.line, Cs0), read_line.rest, FALSE)

(* lines 227-251 and 274-276: the answer to REDY *)
DsOnRedy(l, cs) ==
    IF LineFalsy(l) THEN DsQuit(cs)
    ELSE LET response == Strip(l[1])
             parts == Words(response) IN
         IF response = T_NONE THEN DsQuit(cs)
         ELSE IF (StartsWith(response, T_JOBN) \/ StartsWith(response, T_JOBP))
                 /\ Len(parts) >= 8
         THEN IF \A k \in 3..8 : IsIntTok(parts[k])
              THEN [Goto(Send(cs, T_GETS_ALL), "D_hdr") EXCEPT
                      !.job = [job_id |-> ToInt(parts[3]), submit_time |-> ToInt(parts[4]),
                               est_run_time |-> ToInt(parts[5]), cores |-> ToInt(parts[6]),
                               memory |-> ToInt(parts[7]), disk |-> ToInt(parts[8])]]
              ELSE Goto(cs, "error")
         ELSE DsLoopTop(cs)

DsRedy ==
    /\ variant = "ds" /\ pc = "D_redy"
    /\ ReadLineReady
    /\ Commit(DsOnRedy(read_line.line, Cs0), read_line.rest, FALSE)

(* lines 254-256 *)
DsOnHeader(l, cs) ==
    LET c1 == [cs EXCEPT !.loc.data_header = l, !.loc.lines = <<>>, !.pc = "D_dot"] IN
    IF ~LineFalsy(l) /\ StartsWith(l[1], T_DATA) THEN Send(c1, T_OK) ELSE c1

DsHdr ==
    /\ variant = "ds" /\ pc = "D_hdr"
    /\ ReadLineReady
    /\ Commit(DsOnHeader(read_line.line, Cs0), read_line.rest, FALSE)

(* lines 259-272: after read_until_dot *)
DsAfterGets(cs) ==
    LET data_header == cs.loc.data_header
        gets_data == Join(cs.loc.lines, NL)
        gets_response == IF LineFalsy(data_header) THEN gets_data
                         ELSE data_header[1] \o <<NL>> \o gets_data
        pr == parse_gets_response(cs.servers, gets_response)
        server == DsChoose(pr.dir, cs.job)
        c1 == [cs EXCEPT !.servers = pr.dir, !.parsed = pr.servers, !.gets = @ + 1] IN
    IF Truthy(server)
    THEN Goto(Send(c1, SchdLine(IntToStr(cs.job.job_id), server[1], IntToStr(server[2]))),
              "D_ack")
    ELSE DsLoopTop(c1)

(* one turn of read_until_dot *)
DsOnDotLine(l, cs) ==
    IF l = NoneVal \/ Strip(l[1]) = T_DOT
    THEN DsAfterGets(cs)
    ELSE [cs EXCEPT !.loc.lines = Append(@, l[1])]

DsDot ==
    /\ variant = "ds" /\ pc = "D_dot"
    /\ ReadLineReady
    /\ Commit(DsOnDotLine(read_line.line, Cs0), read_line.rest, FALSE)

DsAck ==
    /\ variant = "ds" /\ pc = "D_ack"
    /\ ReadLineReady
    /\ Commit(DsLoopTop(Cs0), read_line.rest, FALSE)


(* ------------------------------------------------------------------ *)
(* client_moto.py: run_client                                           *)
(* ------------------------------------------------------------------ *)
UpperCase == <<"A", "B", "C", "D", "E", "F", "G", "H", "I", "J", "K", "L", "M",
               "N", "O", "P", "Q", "R", "S", "T", "U", "V", "W", "X", "Y", "Z">>
LowerCase == <<"a", "b", "c", "d", "e", "f", "g", "h", "i", "j", "k", "l", "m",
               "n", "o", "p", "q", "r", "s", "t", "u", "v", "w", "x", "y", "z">>

LowerChar(c) ==
    IF \E k \in 1..26 : UpperCase[k] = c
    THEN LowerCase[CHOOSE k \in 1..26 : UpperCase[k] = c]
    ELSE c

Lower(s) == [k \in 1..Len(s) |-> LowerChar(s[k])]

(* recv(): readline() then strip(); "" when nothing was read *)
moto_recv ==
    IF HasNL(wire)
    THEN LET i == IndexOf(wire, NL, 1) IN
         [msg |-> Strip(SubSeq(wire, 1, i - 1)), rest |-> SubSeq(wire, i + 1, Len(wire))]
    ELSE [msg |-> Strip(wire), rest |-> <<>>]

MotoLoc == [buffer |-> <<>>, n |-> 0]

(* ServerInfo(parts), lines 6-16; NoneVal stands for the exception *)
MotoServerInfo(parts) ==
    IF Len(parts) >= 9 /\ \A k \in {2, 5, 6, 7, 8, 9} : IsIntTok(parts[k])
    THEN [type_name |-> parts[1], server_id |-> ToInt(parts[2]),
          state |-> Lower(parts[3]), cores |-> ToInt(parts[5]),
          memory |-> ToInt(parts[6]), disk |-> ToInt(parts[7]),
          num_waiting_jobs |-> ToInt(parts[8]), num_running_jobs |-> ToInt(parts[9])]
    ELSE NoneVal

MotoHello ==
    /\ variant = "moto" /\ pc = "start"
    /\ Commit([Goto(Send(Cs0, T_HELO), "M_helo") EXCEPT !.loc = MotoLoc], wire, FALSE)

(* lines 54-58: the replies to HELO and AUTH are read and not looked at *)
MotoHelo ==
    /\ variant = "moto" /\ pc \in {"M_helo", "M_auth"}
    /\ ReadLineReady
    /\ Commit(IF pc = "M_helo"
              THEN Goto(Send(Cs0, T_AUTH \o SP \o Username), "M_auth")
              ELSE Goto(Send(Cs0, T_REDY), "M_loop"),
              moto_recv.rest, FALSE)

(* lines 60-76 and 93-96 *)
MotoOnMsg(msg, cs) ==
    IF msg = <<>> THEN cs
    ELSE LET parts == Words(msg) IN
         IF parts[1] = T_NONE THEN Goto(Send(cs, T_QUIT), "M_quit")
         ELSE IF parts[1] = T_JOBN
         THEN IF Len(parts) >= 7 /\ \A k \in 3..7 : IsIntTok(parts[k])
              THEN [Goto(Send(cs, T_GETS_ALL), "M_hdr") EXCEPT
                      !.job = [job_id |-> ToInt(parts[3]), est_run_time |-> ToInt(parts[4]),
                               cores |-> ToInt(parts[5]), memory |-> ToInt(parts[6]),
                               disk |-> ToInt(parts[7])]]
              ELSE Goto(cs, "error")
         ELSE Send(cs, T_REDY)

MotoLoopRecv ==
    /\ variant = "moto" /\ pc = "M_loop"
    /\ ReadLineReady
    /\ Commit(MotoOnMsg(moto_recv.msg, Cs0), moto_recv.rest, FALSE)

(* lines 78-80 and, when range(n) is empty, 84 *)
MotoOnHeader(msg, cs) ==
    LET header == Words(msg) IN
    IF Len(header) >= 2 /\ IsIntTok(header[2])
    THEN LET n == ToInt(header[2])
             c1 == [cs EXCEPT !.servers = <<>>, !.loc.n = n] IN
         IF n <= 0 THEN Goto(Send(c1, T_OK), "M_dot") ELSE Goto(c1, "M_rec")
    ELSE Goto(cs, "error")

MotoHdr ==
    /\ variant = "moto" /\ pc = "M_hdr"
    /\ ReadLineReady
    /\ Commit(MotoOnHeader(moto_recv.msg, Cs0), moto_recv.rest, FALSE)

(* lines 81-84: one turn of the for loop; OK goes out after the last one *)
MotoOnRecord(msg, cs) ==
    LET s == MotoServerInfo(Words(msg)) IN
    IF s = NoneVal THEN Goto(cs, "error")
    ELSE LET c1 == [cs EXCEPT !.servers = Append(@, s)] IN
         IF Len(c1.servers) >= cs.loc.n THEN Goto(Send(c1, T_OK), "M_dot") ELSE c1

MotoRec ==
    /\ variant = "moto" /\ pc = "M_rec"
    /\ ReadLineReady
    /\ Commit(MotoOnRecord(moto_recv.msg, Cs0), moto_recv.rest, FALSE)

(* lines 85-90: the line after the records is read and not looked at *)
MotoAfterGets(cs) ==
    LET schd == MotoSchd(cs.servers, cs.job)
        c1 == [cs EXCEPT !.parsed = cs.servers, !.gets = @ + 1] IN
    IF schd = NoneVal THEN Goto(c1, "error")
    ELSE Goto(Send(c1, SchdLine(IntToStr(schd[1]), schd[2], IntToStr(schd[3]))), "M_ack")

MotoDot ==
    /\ variant = "moto" /\ pc = "M_dot"
    /\ ReadLineReady
    /\ Commit(MotoAfterGets(Cs0), moto_recv.rest, FALSE)

(* lines 91-92 *)
MotoAck ==
    /\ variant = "moto" /\ pc = "M_ack"
    /\ ReadLineReady
    /\ Commit(Goto(Send(Cs0, T_REDY), "M_loop"), moto_recv.rest, FALSE)

(* lines 67-69 *)
MotoQuit ==
    /\ variant = "moto" /\ pc = "M_quit"
    /\ ReadLineReady
    /\ Commit(Goto(Cs0, "done"), moto_recv.rest, FALSE)


(* ------------------------------------------------------------------ *)
(* ds-test/aras_client.py: communicate_with_server                      *)
(* ------------------------------------------------------------------ *)
(* sock.recv(n) returns between 1 and n of the bytes that have arrived;  *)
(* every n the clients use exceeds what the simulator sends at once.     *)
(* A read that returns less than what has arrived is a short read.       *)
RecvLens == {k \in 1..Len(wire) : k = Len(wire) \/ hist.shorts < MaxShort}

Chunk(k) == SubSeq(wire, 1, k)

Rest(k) == SubSeq(wire, k + 1, Len(wire))

(* a read with a timeout gives up when nothing is there and nothing will *)
(* come before the client sends again                                    *)
TimesOut == wire = <<>> /\ (inbox = <<>> \/ sim.stalled) /\ ~sim.closed

T_NLDOT == <<NL, ".">>

ArasLoc == [buffer |-> <<>>, temp_buffer |-> <<>>, gets_response |-> <<>>,
            recv_count |-> 0, timed |-> FALSE]

(* lines 125-149 *)
parse_job(msg) ==
    LET parts == Words(msg) IN
    IF Len(parts) >= 8 /\ \A k \in 3..8 : IsIntTok(parts[k])
    THEN [job_id |-> ToInt(parts[3]), submit_time |-> ToInt(parts[4]),
          est_run_time |-> ToInt(parts[5]), cores |-> ToInt(parts[6]),
          memory |-> ToInt(parts[7]), disk |-> ToInt(parts[8])]
    ELSE NoneVal

ArasQuit(cs) == Goto(Send(cs, T_QUIT), "done")

RECURSIVE ArasLoopTop(_)
RECURSIVE ArasOnResponse(_, _)

(* lines 328-346: REDY, then a line left in buffer is the response *)
ArasLoopTop(cs) ==
    LET c1 == Send(cs, T_REDY)
        buffer == cs.loc.buffer
        parts == Split1(buffer, NL) IN
    IF HasNL(buffer)
    THEN IF parts[1] # <<>>
         THEN ArasOnResponse(parts[1], [c1 EXCEPT !.loc.buffer = parts[2]])
         ELSE Goto([c1 EXCEPT !.loc.buffer = parts[2]], "A_redy")
    ELSE Goto(c1, "A_redy")

(* lines 367-382 and 483-488 *)
ArasOnResponse(line, cs) ==
    LET response == Strip(line) IN
    IF Contains(response, T_QUIT) \/ Contains(response, T_NONE) THEN ArasQuit(cs)
    ELSE IF StartsWith(response, T_JOBN) \/ StartsWith(response, T_JOBP)
    THEN LET j == parse_job(response) IN
         IF j = NoneVal THEN ArasLoopTop(cs)
         ELSE [Goto(Send(cs, T_GETS_ALL), "A_hdr") EXCEPT
                 !.job = j, !.loc.temp_buffer = <<>>]
    ELSE ArasLoopTop(cs)

ArasHello ==
    /\ variant = "aras" /\ pc = "start"
    /\ Commit([Goto(Send(Cs0, T_HELO), "A_helo") EXCEPT !.loc = ArasLoc], wire, FALSE)

(* lines 312-324 *)
ArasHandshake(data, cs) ==
    IF ~Contains(Strip(data), T_OK) THEN Goto(cs, "done")
    ELSE IF cs.pc = "A_helo"
    THEN Goto(Send(cs, T_AUTH \o SP \o Username), "A_auth")
    ELSE ArasLoopTop(cs)

ArasHelo ==
    /\ variant = "aras" /\ pc \in {"A_helo", "A_auth"}
    /\ \/ \E k \in RecvLens :
             Commit(ArasHandshake(Chunk(k), Cs0), Rest(k), k < Len(wire))
       \/ AtEOF /\ Commit(ArasHandshake(<<>>, Cs0), wire, FALSE)

(* lines 347-365 *)
ArasOnChunk(chunk, cs) ==
    LET buffer == cs.loc.buffer \o chunk
        parts == Split1(buffer, NL) IN
    IF HasNL(buffer)
    THEN IF parts[1] = <<>>
         THEN ArasQuit([cs EXCEPT !.loc.buffer = parts[2]])
         ELSE ArasOnResponse(parts[1], [cs EXCEPT !.loc.buffer = parts[2]])
    ELSE ArasLoopTop([cs EXCEPT !.loc.buffer = buffer])

ArasRedy ==
    /\ variant = "aras" /\ pc = "A_redy"
    /\ \/ \E k \in RecvLens :
             Commit(ArasOnChunk(Chunk(k), Cs0), Rest(k), k < Len(wire))
       \/ (AtEOF \/ TimesOut) /\ Commit(ArasQuit(Cs0), wire, FALSE)

(* lines 405-414: OK goes out whatever the header was *)
ArasAfterHeader(cs) ==
    [Goto(Send(cs, T_OK), "A_recs") EXCEPT
       !.loc.gets_response = cs.loc.temp_buffer, !.loc.recv_count = 0]

(* lines 384-403 *)
ArasOnHeaderChunk(chunk, cs) ==
    LET temp_buffer == cs.loc.temp_buffer \o chunk
        lines == SplitOn(temp_buffer, NL) IN
    IF HasNL(temp_buffer)
    THEN ArasAfterHeader([cs EXCEPT !.loc.temp_buffer = Join(Tail(lines), NL)])
    ELSE [cs EXCEPT !.loc.temp_buffer = temp_buffer]

ArasHdr ==
    /\ variant = "aras" /\ pc = "A_hdr"
    /\ \/ \E k \in RecvLens :
             Commit(ArasOnHeaderChunk(Chunk(k), Cs0), Rest(k), k < Len(wire))
       \/ (AtEOF \/ TimesOut) /\ Commit(ArasAfterHeader(Cs0), wire, FALSE)

(* lines 449-481: parse, decide, SCHD or the warning *)
ArasAfterRecs(cs, timed) ==
    LET pr == parse_gets_response(cs.servers, cs.loc.gets_response)
        server == ArasChoose(pr.dir, cs.job)
        c1 == [cs EXCEPT !.servers = pr.dir, !.parsed = pr.servers, !.gets = @ + 1,
                         !.loc.timed = timed] IN
    IF Truthy(server)
    THEN Goto(Send(c1, SchdLine(IntToStr(cs.job.job_id), server[1], IntToStr(server[2]))),
              "A_ack")
    ELSE ArasLoopTop(c1)

(* lines 435-447 *)
ArasOnRecsChunk(chunk, cs) ==
    LET gets_response == cs.loc.gets_response \o chunk
        c1 == [cs EXCEPT !.loc.gets_response = gets_response, !.loc.recv_count = 0] IN
    IF Contains(gets_response, T_NLDOT)
    THEN ArasAfterRecs([c1 EXCEPT !.loc.gets_response =
                              SubSeq(gets_response, 1, RFind(gets_response, T_NLDOT) + 1)],
                       FALSE)
    ELSE IF EndsWith(RStrip(gets_response), T_DOT) /\ Len(RStrip(gets_response)) > 1
    THEN ArasAfterRecs(c1, FALSE)
    ELSE c1

(* lines 416-433: a timeout or an empty read counts towards max_recv *)
ArasOnRecsNothing(cs, timed) ==
    IF Contains(cs.loc.gets_response, T_DOT) THEN ArasAfterRecs(cs, timed)
    ELSE IF cs.loc.recv_count + 1 >= MaxRecv
    THEN ArasAfterRecs([cs EXCEPT !.loc.recv_count = @ + 1], timed)
    ELSE [cs EXCEPT !.loc.recv_count = @ + 1]

ArasRecs ==
    /\ variant = "aras" /\ pc = "A_recs"
    /\ \/ \E k \in RecvLens :
             Commit(ArasOnRecsChunk(Chunk(k), Cs0), Rest(k), k < Len(wire))
       \/ AtEOF /\ Commit(ArasOnRecsNothing(Cs0, FALSE), wire, FALSE)
       \/ TimesOut /\ Commit(ArasOnRecsNothing(Cs0, TRUE), wire, FALSE)

(* lines 461-478: one read for the acknowledgment; it still has the      *)
(* 5 s timeout when the records loop ended on a timeout                  *)
ArasAck ==
    /\ variant = "aras" /\ pc = "A_ack"
    /\ \/ \E k \in RecvLens :
             Commit(ArasLoopTop(Cs0), Rest(k), k < Len(wire))
       \/ AtEOF /\ Commit(ArasLoopTop(Cs0), wire, FALSE)
       \/ loc.timed /\ TimesOut /\ Commit(Goto(Cs0, "error"), wire, FALSE)


(* ------------------------------------------------------------------ *)
(* src/client.py: main, get_capable_servers, parse_server_info          *)
(* ------------------------------------------------------------------ *)
ClLoc == [buffer |-> <<>>, gbuf |-> <<>>, n_recs |-> 0, received_count |-> 0,
          jobn |-> TRUE]

(* ServerInfo(...), lines 23-36: the conversions that can raise *)
ClServerInfoOk(parts) ==
    /\ parts[4] = <<"-">> \/ IsIntTok(parts[4])
    /\ \A k \in 5..9 : IsIntTok(parts[k])

(* lines 80-96; the ids stay text *)
parse_server_info(line) ==
    LET parts == Words(Strip(line)) IN
    IF Len(parts) >= 9
    THEN [type_name |-> parts[1], server_id |-> parts[2], state |-> parts[3],
          start_time |-> IF parts[4] = <<"-">> THEN 0 ELSE ToInt(parts[4]),
          cores |-> ToInt(parts[5]), memory |-> ToInt(parts[6]), disk |-> ToInt(parts[7]),
          num_waiting_jobs |-> ToInt(parts[8]), num_running_jobs |-> ToInt(parts[9])]
    ELSE NoneVal

ParseRaises(line) ==
    LET parts == Words(Strip(line)) IN Len(parts) >= 9 /\ ~ClServerInfoOk(parts)

(* first line whose strip() starts with DATA, lines 212-216 *)
RECURSIVE FindDataLine(_)
FindDataLine(lines) ==
    IF lines = <<>> THEN NoneVal
    ELSE IF StartsWith(Strip(lines[1]), T_DATA) THEN <<Strip(lines[1])>>
    ELSE FindDataLine(Tail(lines))

GetsLine(kind, j) ==
    T_GETS \o SP \o kind \o SP \o IntToStr(j.cores) \o SP \o IntToStr(j.memory)
           \o SP \o IntToStr(j.disk)

RECURSIVE ClLoopTop(_)
RECURSIVE ClOnResponse(_, _)

(* lines 335-340 *)
ClExtract(cs) ==
    LET buffer == cs.loc.buffer
        parts == Split1(buffer, NL) IN
    IF HasNL(buffer)
    THEN ClOnResponse(Strip(parts[1]), [cs EXCEPT !.loc.buffer = parts[2]])
    ELSE ClOnResponse(Strip(buffer), [cs EXCEPT !.loc.buffer = <<>>])

(* lines 323-333: a read is needed unless buffer holds a whole line *)
ClLoopTop(cs) ==
    LET c1 == Send(cs, T_REDY) IN
    IF HasNL(cs.loc.buffer) THEN ClExtract(c1) ELSE Goto(c1, "C_redy")

(* lines 343-350, 408-414 and 422-441 *)
ClOnResponse(response, cs) ==
    IF StartsWith(response, T_JOBN) \/ StartsWith(response, T_JOBP)
    THEN LET parts == Words(response) IN
         IF Len(parts) >= 8 /\ \A k \in 4..8 : IsIntTok(parts[k])
         THEN LET j == [job_id |-> parts[3], submit_time |-> ToInt(parts[4]),
                        est_run_time |-> ToInt(parts[5]), cores |-> ToInt(parts[6]),
                        memory |-> ToInt(parts[7]), disk |-> ToInt(parts[8])] IN
              [Goto(Send(cs, GetsLine(T_CAPABLE, j)), "C_hdr") EXCEPT
                 !.job = j, !.loc.jobn = StartsWith(response, T_JOBN)]
         ELSE Goto(cs, "error")
    ELSE IF response = T_NONE THEN Goto(Send(cs, T_QUIT), "done")
    ELSE ClLoopTop(cs)

ClHello ==
    /\ variant = "cl" /\ pc = "start"
    /\ Commit([Goto(Send(Cs0, T_HELO), "C_helo") EXCEPT !.loc = ClLoc], wire, FALSE)

(* lines 293-306 *)
ClHandshake(data, cs) ==
    IF SplitOn(Strip(data), NL)[1] # T_OK THEN Goto(cs, "done")
    ELSE IF cs.pc = "C_helo"
    THEN Goto(Send(cs, T_AUTH \o SP \o T_USERNAME), "C_auth")
    ELSE ClLoopTop(cs)

ClHelo ==
    /\ variant = "cl" /\ pc \in {"C_helo", "C_auth"}
    /\ \/ \E k \in RecvLens :
             Commit(ClHandshake(Chunk(k), Cs0), Rest(k), k < Len(wire))
       \/ AtEOF /\ Commit(ClHandshake(<<>>, Cs0), wire, FALSE)

ClRedy ==
    /\ variant = "cl" /\ pc = "C_redy"
    /\ \/ \E k \in RecvLens :
             Commit(ClExtract([Cs0 EXCEPT !.loc.buffer = @ \o Chunk(k)]), Rest(k),
                    k < Len(wire))
       \/ AtEOF /\ Commit(ClExtract(Cs0), wire, FALSE)

(* lines 352-366 and 415-419 on the list get_capable_servers returned;    *)
(* lines 367-369 when it is empty                                         *)
ClAfterGets(cs) ==
    LET c1 == [cs EXCEPT !.parsed = cs.servers, !.gets = @ + 1]
        schd == ClSchd(cs.servers, cs.job, cs.job.submit_time) IN
    IF cs.servers # <<>>
    THEN IF cs.loc.jobn \/ select_best_server(cs.servers, cs.job, cs.job.submit_time) # NoneVal
         THEN Goto(Send(c1, SchdLine(schd[1], schd[2], schd[3])), "C_ack")
         ELSE ClLoopTop(c1)
    ELSE IF cs.loc.jobn
    THEN Goto(Send(c1, GetsLine(T_AVAIL, cs.job)), "C_avhdr")
    ELSE ClLoopTop(c1)

(* lines 208-236 *)
ClOnHeader(data, cs) ==
    LET data_line == FindDataLine(SplitOn(data, NL))
        c0 == [cs EXCEPT !.servers = <<>>] IN
    IF data_line = NoneVal THEN ClAfterGets(c0)
    ELSE LET parts == Words(data_line[1]) IN
         IF Len(parts) >= 3 /\ IsIntTok(parts[2]) /\ IsIntTok(parts[3])
         THEN LET c1 == [Send(c0, T_OK) EXCEPT !.loc.gbuf = <<>>,
                            !.loc.received_count = 0, !.loc.n_recs = ToInt(parts[2])] IN
              IF 0 < c1.loc.n_recs THEN Goto(c1, "C_recs") ELSE ClAfterGets(c1)
         ELSE Goto(cs, "error")

ClHdr ==
    /\ variant = "cl" /\ pc = "C_hdr"
    /\ \/ \E k \in RecvLens :
             Commit(ClOnHeader(Chunk(k), Cs0), Rest(k), k < Len(wire))
       \/ AtEOF /\ Commit(ClOnHeader(<<>>, Cs0), wire, FALSE)

(* lines 246-261: the inner loop over the whole lines in the local buffer *)
RECURSIVE ClInner(_)
ClInner(cs) ==
    LET parts == Split1(cs.loc.gbuf, NL) IN
    IF ~HasNL(cs.loc.gbuf) THEN cs
    ELSE LET line == Strip(parts[1])
             c1 == [cs EXCEPT !.loc.gbuf = parts[2]] IN
         IF line = <<>> \/ line = T_DOT THEN c1
         ELSE IF ParseRaises(line) THEN Goto(c1, "error")
         ELSE LET server_info == parse_server_info(line)
                  c2 == IF server_info = NoneVal THEN c1
                        ELSE [c1 EXCEPT !.servers = Append(@, server_info),
                                        !.loc.received_count = @ + 1] IN
              IF c2.loc.received_count >= c2.loc.n_recs THEN c2 ELSE ClInner(c2)

(* lines 238-274: one turn of the outer loop *)
ClOnRecsChunk(data, cs) ==
    LET c1 == ClInner([cs EXCEPT !.loc.gbuf = @ \o data]) IN
    IF c1.pc = "error" THEN c1
    ELSE IF c1.loc.received_count < c1.loc.n_recs THEN c1
    ELSE ClAfterGets(c1)

(* at end of stream the loop breaks and the read at 267 is empty as well *)
ClRecs ==
    /\ variant = "cl" /\ pc = "C_recs"
    /\ \/ \E k \in RecvLens :
             Commit(ClOnRecsChunk(Chunk(k), Cs0), Rest(k), k < Len(wire))
       \/ AtEOF /\ Commit(ClAfterGets(Cs0), wire, FALSE)

(* lines 360 and 365, 419: the reply to SCHD is read and dropped *)
ClAck ==
    /\ variant = "cl" /\ pc = "C_ack"
    /\ \/ \E k \in RecvLens : Commit(ClLoopTop(Cs0), Rest(k), k < Len(wire))
       \/ AtEOF /\ Commit(ClLoopTop(Cs0), wire, FALSE)

(* lines 401-406 *)
ClAfterAvail(cs) ==
    LET best_server == select_best_server(cs.servers, cs.job, cs.job.submit_time)
        c1 == [cs EXCEPT !.parsed = cs.servers, !.gets = @ + 1] IN
    IF cs.servers # <<>> /\ best_server # NoneVal
    THEN Goto(Send(c1, SchdLine(cs.job.job_id, best_server.type_name,
                                best_server.server_id)), "C_avack")
    ELSE ClLoopTop(c1)

(* lines 386-399 *)
RECURSIVE ClAvailLoop(_)
ClAvailLoop(cs) ==
    LET parts == Split1(cs.loc.gbuf, NL) IN
    IF cs.loc.received_count >= cs.loc.n_recs THEN ClAfterAvail(cs)
    ELSE IF ~HasNL(cs.loc.gbuf) THEN Goto(cs, "C_avrecs")
    ELSE LET line == Strip(parts[1])
             c1 == [cs EXCEPT !.loc.gbuf = parts[2]] IN
         IF line = <<>> \/ line = T_DOT THEN ClAvailLoop(c1)
         ELSE IF ParseRaises(line) THEN Goto(c1, "error")
         ELSE LET server_info == parse_server_info(line) IN
              IF server_info # NoneVal /\ can_fit_job(server_info, cs.job)
              THEN ClAvailLoop([c1 EXCEPT !.servers = Append(@, server_info),
                                          !.loc.received_count = @ + 1])
              ELSE ClAvailLoop(c1)

(* lines 372-384 *)
ClOnAvailHeader(data, cs) ==
    LET lines == SplitOn(data, NL)
        data_line == Strip(lines[1])
        parts == Words(data_line) IN
    IF StartsWith(data_line, T_DATA)
    THEN IF Len(parts) >= 2 /\ IsIntTok(parts[2])
         THEN ClAvailLoop([Send(cs, T_OK) EXCEPT
                             !.servers = <<>>, !.loc.gbuf = Join(Tail(lines), NL),
                             !.loc.received_count = 0, !.loc.n_recs = ToInt(parts[2])])
         ELSE Goto(cs, "error")
    ELSE ClLoopTop(cs)

ClAvailHdr ==
    /\ variant = "cl" /\ pc = "C_avhdr"
    /\ \/ \E k \in RecvLens :
             Commit(ClOnAvailHeader(Chunk(k), Cs0), Rest(k), k < Len(wire))
       \/ AtEOF /\ Commit(ClOnAvailHeader(<<>>, Cs0), wire, FALSE)

ClAvailRecs ==
    /\ variant = "cl" /\ pc = "C_avrecs"
    /\ \/ \E k \in RecvLens :
             Commit(ClAvailLoop([Cs0 EXCEPT !.loc.gbuf = @ \o Chunk(k)]), Rest(k),
                    k < Len(wire))
       \/ AtEOF /\ Commit(ClAfterAvail(Cs0), wire, FALSE)

(* lines 405-406: the reply to SCHD becomes the session buffer *)
ClAvailAck ==
    /\ variant = "cl" /\ pc = "C_avack"
    /\ \/ \E k \in RecvLens :
             Commit(ClLoopTop([Cs0 EXCEPT !.loc.buffer = Chunk(k)]), Rest(k),
                    k < Len(wire))
       \/ AtEOF /\ Commit(ClLoopTop([Cs0 EXCEPT !.loc.buffer = <<>>]), wire, FALSE)

NextSession ==
    \/ SimStep \/ SimStall \/ SimClose
    \/ ArasHello \/ ArasHelo \/ ArasRedy \/ ArasHdr \/ ArasRecs \/ ArasAck
    \/ DsHello \/ DsHelo \/ DsRedy \/ DsHdr \/ DsDot \/ DsAck
    \/ ClHello \/ ClHelo \/ ClRedy \/ ClHdr \/ ClRecs \/ ClAck
    \/ ClAvailHdr \/ ClAvailRecs \/ ClAvailAck
    \/ MotoHello \/ MotoHelo \/ MotoLoopRecv \/ MotoHdr \/ MotoRec \/ MotoDot
    \/ MotoAck \/ MotoQuit

SpecSession == InitSession /\ [][NextSession]_vars


(* ------------------------------------------------------------------ *)
(* Properties of the session                                            *)
(* ------------------------------------------------------------------ *)
(* the reads that take the bulk reply off the socket *)
BulkPcs == {"A_hdr", "A_recs", "D_hdr", "D_dot", "C_hdr", "C_recs"}

(* what the variant's own parser makes of the block when header, records *)
(* and sentinel each arrive whole: aras_client.py hands its parser the    *)
(* text after the header line, client.py the header and the record lines, *)
(* src/client.py each record line                                         *)
UnfragmentedParse ==
    LET sc == sim.scen IN
    IF variant = "aras"
    THEN parse_gets_response(<<>>, LinesText(sc.recs) \o T_DOT).servers
    ELSE IF variant = "ds"
    THEN parse_gets_response(<<>>, sc.hdr \o <<NL>> \o Join(sc.recs, NL)).servers
    ELSE [k \in 1..Len(sc.recs) |-> parse_server_info(sc.recs[k])]

ReassembledAndInStep ==
    /\ hist.gets > 0 => hist.parsed = UnfragmentedParse
    /\ ~hist.overlap
    /\ job # NoneVal => pc # "error"

(* C9 (Framing reassembly): for a valid bulk reply, however its bytes are  *)
(* split into socket reads, the records the client parses are those of   *)
(* the unfragmented read, and the session goes on in step: no request is *)
(* sent while an earlier reply is unread, and no exception ends it.      *)
(* Covers aras_client.py, ds-test/client.py and src/client.py.           *)
C9_FramingReassembly ==
    (sim.on /\ variant \in {"aras", "ds", "cl"} /\ sim.scen.capable
            /\ hist.shortAt \subseteq BulkPcs)
        => ReassembledAndInStep

(* the same statement for the unfragmented read alone: the baseline *)
C9_Unfragmented ==
    (sim.on /\ variant \in {"aras", "ds", "cl"} /\ sim.scen.capable /\ hist.shorts = 0)
        => ReassembledAndInStep

(* the same statement for read_line / read_until_dot of ds-test/client.py *)
C9_ByteWiseReader == (sim.on /\ variant = "ds") => ReassembledAndInStep

SchdE2E ==
    <<"S", "C", "H", "D", " ", "1", " ", "t", "y", "p", "e", "1", " ", "0">>

E2ETranscript == <<T_HELO, T_AUTH \o SP \o Username, T_REDY, T_GETS_ALL, T_OK, SchdE2E>>

(* C10 (End-to-end scenario): with the simulator sending OK, OK,         *)
(* 'JOBN 1 0 100 2 1024 10', 'DATA 2 0', the two type1 records and '.',  *)
(* the client's messages are, in order, HELO, AUTH u, REDY, GETS All, OK *)
(* and SCHD 1 type1 0: every message it has sent so far is the one the   *)
(* transcript has at that position.                                      *)
C10_EndToEnd ==
    (sim.on /\ variant \in {"aras", "ds", "moto"} /\ sim.scen.events = <<JobE2E>>
            /\ hist.shorts = 0)
        => \A i \in 1..Min(Len(sent), Len(E2ETranscript)) : sent[i] = E2ETranscript[i]

(* the simulator holds the records back until OK, nothing is in flight   *)
(* either way, and the client has not sent OK: both sides wait           *)
BothWait == sim.awaiting /\ inbox = <<>> /\ wire = <<>>

(* C11 (Bulk acknowledgment ordering): after GETS the client sends OK as  *)
(* soon as it has read the DATA header and before it waits for a record, *)
(* so against a simulator that streams the records only after OK the     *)
(* exchange never ends with both sides waiting.  Covers client_moto.py,  *)
(* ds-test/client.py and aras_client.py.                                 *)
C11_AckBeforeRecords ==
    (sim.on /\ variant \in {"moto", "ds", "aras"}) => ~BothWait

(* the same statement for the two ARAS files alone *)
C11_ArasFilesAck == (sim.on /\ variant \in {"ds", "aras"}) => ~BothWait

(* C12 (Bulk block consumption): when the bulk read for 'DATA count len' *)
(* returns, the count record lines and the sentinel line have been taken *)
(* off the connection and nothing of the reply is left unread, so the    *)
(* next line the session reads is the first one sent after the sentinel. *)
(* hist.left is what was unread at the moment the bulk read returned.    *)
(* Covers get_capable_servers of src/client.py and aras_client.py.       *)
C12_BulkBlockConsumed ==
    (sim.on /\ variant \in {"aras", "cl"} /\ sim.scen.capable /\ hist.gets > 0
            /\ hist.shortAt \subseteq BulkPcs)
        => hist.left = <<>>

(* the same statement when every read returns all that has arrived *)
C12_WholeReads ==
    (sim.on /\ variant \in {"aras", "cl"} /\ sim.scen.capable /\ hist.gets > 0
            /\ hist.shorts = 0)
        => hist.left = <<>>

HandshakeRefused == sim.scen.helo # T_OK \/ sim.scen.auth # T_OK

(* C13 (Handshake failure is fatal): if the reply to HELO or to AUTH is  *)
(* a line other than exactly OK, the session aborts: the client sends no *)
(* REDY, GETS or SCHD.  Covers aras_client.py, client_moto.py and        *)
(* ds-test/client.py.                                                    *)
C13_HandshakeFatal ==
    (sim.on /\ variant \in {"aras", "moto", "ds"} /\ HandshakeRefused)
        => ~HasRequest(sent)

(* the same statement for the ARAS files and a reply without 'OK' in it *)
C13_ArasFilesOnErr ==
    (sim.on /\ variant \in {"aras", "ds"} /\ sim.scen.auth = T_ERR)
        => ~HasRequest(sent)

(* C14 (Strict request/response alternation): the client never sends a  *)
(* REDY, GETS or SCHD while the reply to an earlier message is still     *)
(* unread or not yet produced, and never two of them on one reply, also  *)
(* when a reply arrives split over several reads.  hist.early records    *)
(* such a send.  Covers aras_client.py, src/client.py and                *)
(* ds-test/client.py.                                                    *)
C14_StrictAlternation ==
    (sim.on /\ variant \in {"aras", "cl", "ds"}) => ~hist.early

(* the same statement for ds-test/client.py, which reads line by line *)
C14_ByteWiseReader == (sim.on /\ variant = "ds") => ~hist.early

(* the same statement when every read returns all that has arrived *)
C14_WholeReads ==
    (sim.on /\ variant \in {"aras", "cl", "ds"} /\ hist.shorts = 0) => ~hist.early

(* two runs of a handler emit the same messages and stop at the same call *)
Alike(a, b) == a.outq = b.outq /\ a.pc = b.pc

ClAsJobn == [Cs0 EXCEPT !.loc.jobn = TRUE]
ClAsJobp == [Cs0 EXCEPT !.loc.jobn = FALSE]

(* C15 (JOBP is handled like JOBN): wherever a client is about to read   *)
(* a JOBN line, the same line announced as JOBP makes it emit the same   *)
(* messages; and in src/client.py, whose two branches share the bulk     *)
(* query, the replies to that query lead to the same messages in the     *)
(* JOBP branch as in the JOBN branch.                                    *)
C15_JobpLikeJobn ==
    sim.on =>
      /\ (variant = "moto" /\ pc = "M_loop" /\ HasNL(wire)
            /\ StartsWith(moto_recv.msg, T_JOBN))
         => Alike(MotoOnMsg(moto_recv.msg, Cs0), MotoOnMsg(AsJobp(moto_recv.msg), Cs0))
      /\ (variant = "ds" /\ pc = "D_redy" /\ HasNL(wire)
            /\ StartsWith(read_line.line[1], T_JOBN))
         => Alike(DsOnRedy(read_line.line, Cs0),
                  DsOnRedy(<<AsJobp(read_line.line[1])>>, Cs0))
      /\ (variant = "cl" /\ pc = "C_redy" /\ loc.buffer = <<>> /\ HasNL(wire)
            /\ StartsWith(wire, T_JOBN))
         => Alike(ClExtract([Cs0 EXCEPT !.loc.buffer = wire]),
                  ClExtract([Cs0 EXCEPT !.loc.buffer = AsJobp(wire)]))
      /\ (variant = "cl" /\ pc = "C_hdr")
         => \A k \in RecvLens :
               Alike(ClOnHeader(Chunk(k), ClAsJobn), ClOnHeader(Chunk(k), ClAsJobp))
      /\ (variant = "cl" /\ pc = "C_recs")
         => \A k \in RecvLens :
               Alike(ClOnRecsChunk(Chunk(k), ClAsJobn), ClOnRecsChunk(Chunk(k), ClAsJobp))

(* the same statement for ds-test/client.py alone *)
C15_DsJobp ==
    (sim.on /\ variant = "ds" /\ pc = "D_redy" /\ HasNL(wire)
       /\ StartsWith(read_line.line[1], T_JOBN))
    => Alike(DsOnRedy(read_line.line, Cs0), DsOnRedy(<<AsJobp(read_line.line[1])>>, Cs0))

(* the same statement for src/client.py when a capable server exists and *)
(* every read returns all that has arrived                              *)
C15_ClCapable ==
    (sim.on /\ variant = "cl" /\ sim.scen.capable /\ hist.shorts = 0
       /\ pc \in {"C_hdr", "C_recs"} /\ wire # <<>>)
    => IF pc = "C_hdr"
       THEN Alike(ClOnHeader(wire, ClAsJobn), ClOnHeader(wire, ClAsJobp))
       ELSE Alike(ClOnRecsChunk(wire, ClAsJobn), ClOnRecsChunk(wire, ClAsJobp))

(* a session in which a resubmitted job was scheduled *)
C15_DsJobpScheduled ==
    sim.on /\ variant = "ds" /\ sim.scen.name = "jobp" /\ HasRequest(sent)
    /\ \E i \in 1..Len(sent) : StartsWith(sent[i], T_SCHD)

(* what the client has sent since it read the NONE line to its end *)
AfterNone == SubSeq(sent, hist.noneAt + 1, Len(sent))

(* C16 (Termination message): once the client has received the line      *)
(* NONE in answer to REDY, the only message it sends is one QUIT, and a   *)
(* session that has ended has sent it.  hist.noneAt is the number of      *)
(* messages sent before the read that completed the NONE line.  Covers    *)
(* ds-test/client.py, client_moto.py and src/client.py.                   *)
C16_QuitOnNone ==
    (sim.on /\ variant \in {"ds", "moto", "cl"} /\ hist.noneAt >= 0)
    => /\ AfterNone \in {<<>>, <<T_QUIT>>}
       /\ pc \in {"done", "error"} => AfterNone = <<T_QUIT>>

(* the same statement for the two clients that read line by line *)
C16_ByteWiseReaders ==
    (sim.on /\ variant \in {"ds", "moto"} /\ hist.noneAt >= 0)
    => /\ AfterNone \in {<<>>, <<T_QUIT>>}
       /\ pc \in {"done", "error"} => AfterNone = <<T_QUIT>>

(* the same statement when every read returns all that has arrived *)
C16_WholeReads ==
    (sim.on /\ variant \in {"ds", "moto", "cl"} /\ hist.noneAt >= 0 /\ hist.shorts = 0)
    => /\ AfterNone \in {<<>>, <<T_QUIT>>}
       /\ pc \in {"done", "error"} => AfterNone = <<T_QUIT>>

(* the client is in a read, nothing is in flight and the simulator has   *)
(* nothing more to say                                                   *)
Stuck ==
    /\ pc \notin {"start", "done", "error"}
    /\ wire = <<>> /\ inbox = <<>> /\ ~sim.closed

ShortRecRun == sim.on /\ sim.scen.name \in {"shortrec", "shortrec-eager"}

(* C17 (Per-record parse errors are recovered locally): when one record  *)
(* of a bulk block has fewer than 9 fields and every read returns all    *)
(* that has arrived, the session is not aborted, the client does not     *)
(* wait for a record that never comes, and the bulk read returns the     *)
(* well-formed record of the block.  Covers src/client.py and            *)
(* client_moto.py in a session.                                          *)
C17_RecordErrorsRecovered ==
    (ShortRecRun /\ variant \in {"cl", "moto"} /\ hist.shorts = 0)
    => /\ pc # "error"
       /\ ~Stuck
       /\ hist.gets > 0 => Len(hist.parsed) = 1

RECURSIVE WellFormedOf(_)
(* the records of the well-formed lines of a block body, in order *)
WellFormedOf(b) ==
    IF b = <<>> THEN <<>>
    ELSE LET parts == Words(b[1])
             off == StartIdx(parts) IN
         (IF Len(parts) >= off + 9 /\ RecordIntsOk(parts, off)
          THEN <<RecordOf(parts, off)>> ELSE <<>>) \o WellFormedOf(Tail(b))

(* the same statement for parse_gets_response of the ARAS files: the     *)
(* list it returns for a block is the well-formed records of the block   *)
C17_ArasParser ==
    (out.op = "parse" /\ out.n > 0) =>
        \A b \in BlockBodies :
            out.block = BlockText(b) => out.parsed = WellFormedOf(b)

(* the read the client is in ends by itself: a timeout is set on it *)
CanTimeOut ==
    variant = "aras" /\ (pc \in {"A_redy", "A_hdr", "A_recs"} \/ (pc = "A_ack" /\ loc.timed))

(* the client waits in a read without timeout for bytes nobody will send *)
Hangs == Stuck /\ ~CanTimeOut

RECURSIVE HasWord(_, _)
(* one of the messages starts with the word w *)
HasWord(msgs, w) ==
    msgs # <<>> /\ (StartsWith(Head(msgs), w) \/ HasWord(Tail(msgs), w))

(* C18 (Framing errors are fatal): when the reply to the bulk query is   *)
(* ERR instead of a DATA header, the client sends no OK and no SCHD and   *)
(* does not stay in a read that cannot end.  Covers aras_client.py and    *)
(* ds-test/client.py, every read returning all that has arrived.          *)
C18_FramingErrorsFatal ==
    (sim.on /\ sim.scen.name = "errhdr" /\ variant \in {"aras", "ds"} /\ hist.shorts = 0)
    => /\ ~HasWord(sent, T_OK)
       /\ ~HasWord(sent, T_SCHD)
       /\ ~Hangs

(* the part of the statement both files satisfy: no SCHD for that job *)
C18_NoSchd ==
    (sim.on /\ sim.scen.name = "errhdr" /\ variant \in {"aras", "ds"})
    => ~HasWord(sent, T_SCHD)

(* ds-test/client.py sends no OK for the ERR line *)
C18_DsNoOk ==
    (sim.on /\ sim.scen.name = "errhdr" /\ variant = "ds") => ~HasWord(sent, T_OK)

(* the simulator has fallen silent and the client waits for it in a read *)
(* on which no timeout is set                                            *)
HangsOnSilence ==
    /\ sim.stalled
    /\ pc \notin {"start", "done", "error"}
    /\ TimesOut /\ ~CanTimeOut

(* C19 (No indefinite hang): when the simulator stops sending after the  *)
(* handshake and keeps the connection open, the client is never left in  *)
(* a read without a timeout.  Covers aras_client.py, ds-test/client.py   *)
(* and src/client.py.                                                    *)
C19_NoIndefiniteHang ==
    (sim.on /\ variant \in {"aras", "ds", "cl"}) => ~HangsOnSilence

(* in aras_client.py the reads of the REDY reply, of the header and of   *)
(* the records are bounded: the only read it can hang in is the one of   *)
(* the SCHD acknowledgment                                               *)
C19_ArasBoundedReads ==
    (sim.on /\ variant = "aras" /\ HangsOnSilence) => pc = "A_ack"

(* a silent simulator during the header read of aras_client.py: the      *)
(* session has gone on and ended with QUIT                               *)
C19_ArasEndsAfterTimeouts ==
    sim.on /\ variant = "aras" /\ sim.stalled /\ pc = "done"
    /\ sent[Len(sent)] = T_QUIT /\ HasWord(sent, T_GETS) /\ ~HasWord(sent, T_SCHD)

(* what the client does with the end of stream in the read of the REDY   *)
(* reply                                                                 *)
OnClosure ==
    IF variant = "moto" THEN MotoOnMsg(moto_recv.msg, Cs0)
    ELSE IF variant = "cl" THEN ClExtract(Cs0)
    ELSE ArasQuit(Cs0)

InLoopRead ==
    \/ variant = "moto" /\ pc = "M_loop"
    \/ variant = "cl" /\ pc = "C_redy"
    \/ variant = "aras" /\ pc = "A_redy"

(* C20 (Connection closure ends the session): when the read of the REDY  *)
(* reply returns zero bytes, the client either ends the session or sends *)
(* a message, of which a closed connection accepts MaxAfterClose before  *)
(* the send raises; it never comes back to the same read having done     *)
(* nothing.  Covers client_moto.py, src/client.py and aras_client.py.    *)
C20_ClosureEndsSession ==
    (sim.on /\ variant \in {"moto", "cl", "aras"} /\ InLoopRead /\ AtEOF)
    => (OnClosure.pc \in {"done", "error"} \/ OnClosure.outq # <<>>)

(* the same statement for src/client.py and aras_client.py *)
C20_ClArasEnd ==
    (sim.on /\ variant \in {"cl", "aras"} /\ InLoopRead /\ AtEOF)
    => (OnClosure.pc \in {"done", "error"} \/ OnClosure.outq # <<>>)

(* after the closure src/client.py and aras_client.py are in a read that *)
(* returns at once, or at their end                                      *)
C20_ClArasNeverWait ==
    (sim.on /\ variant \in {"cl", "aras"} /\ sim.closed /\ sim.scen.closes)
    => (pc \in {"done", "error"} \/ wire # <<>> \/ AtEOF)

(* aras_client.py breaks out of its loop at the closure and sends QUIT *)
C20_ArasQuits ==
    (sim.on /\ variant = "aras" /\ pc = "A_redy" /\ AtEOF)
    => (OnClosure.pc = "done" /\ OnClosure.outq = <<T_QUIT>>)

(* the job message of the end-to-end scenario, fields in the specified   *)
(* order: JOBN 1 0 100 2 1024 10 is job 1, submitted at 0, 100 long,     *)
(* asking for 2 cores, 1024 of memory and 10 of disk                     *)
SpecOrderRun == sim.on /\ sim.scen.name \in {"e2e", "e2e-eager"}

SchdJobIds == {Words(sent[i])[2] : i \in {k \in 1..Len(sent) : StartsWith(sent[k], T_SCHD)}}

(* C21 (Job identity on the wire): for the job message                   *)
(* JOBN 1 0 100 2 1024 10 every SCHD command names job 1, and the job    *)
(* the client decides for asks for 2 cores, 1024 memory and 10 disk.     *)
(* Covers ds-test/client.py, aras_client.py and client_moto.py.          *)
C21_JobIdentity ==
    (SpecOrderRun /\ variant \in {"ds", "aras", "moto"})
    => /\ SchdJobIds \subseteq {<<"1">>}
       /\ job # NoneVal => (job.cores = 2 /\ job.memory = 1024 /\ job.disk = 10)

(* the demand part of the statement, which client_moto.py satisfies *)
C21_MotoDemand ==
    (SpecOrderRun /\ variant = "moto" /\ job # NoneVal)
    => (job.cores = 2 /\ job.memory = 1024 /\ job.disk = 10)

(* the two ARAS files take no job from a message of seven tokens *)
C21_ArasFilesNoJob ==
    (SpecOrderRun /\ variant \in {"ds", "aras"}) => (job = NoneVal /\ SchdJobIds = {})

(* ------------------------------------------------------------------ *)
(* Scoring specification: the scoring functions of the three files on   *)
(* one or two server records, with zero capacities, long queues and     *)
(* boot times on both sides of the bootup time                          *)
(* ------------------------------------------------------------------ *)
ScoreWaiting == 50
ScoreStart == 100

ScoreShapes == {<<1, 1, 1>>, <<2, 2, 2>>, <<1, 3, 4>>}
ZeroShapes == {<<c, m, d>> : c \in {0, 1}, m \in {0, 2}, d \in {0, 1}}
ScoreDemands == {<<c, m, d>> : c \in {0, 1}, m \in {0, 1}, d \in {0, 1}}
ScoreWaitingVals == {0, 1, ScoreWaiting}
ScoreRunningVals == {0, MaxRunning}
StartVals == {0, 30, DefaultBootup, DefaultBootup + 1, ScoreStart - 5, ScoreStart}
NowVals == {0, ScoreStart}

MkScored(id, st, start, shape, w, r) ==
    [MkServer(id, st, shape, w, r) EXCEPT !.start_time = start]

(* an idle or active server next to an inactive one *)
StatePairs ==
    {<<MkScored(0, st, 0, sh1, w1, r1), MkScored(1, SERVER_STATE_INACTIVE, 0, sh2, w2, r2)>> :
        st \in {SERVER_STATE_IDLE, SERVER_STATE_ACTIVE},
        sh1 \in ScoreShapes, sh2 \in ScoreShapes,
        w1 \in ScoreWaitingVals, w2 \in {0, 1},
        r1 \in ScoreRunningVals, r2 \in ScoreRunningVals}

(* two booting servers that differ in their start time only *)
BootPairs ==
    {<<MkScored(0, SERVER_STATE_BOOTING, t1, sh, w, r),
       MkScored(1, SERVER_STATE_BOOTING, t2, sh, w, r)>> :
        t1 \in StartVals, t2 \in StartVals, sh \in ScoreShapes,
        w \in {0, 1}, r \in ScoreRunningVals}

(* one server of any state, zero capacities included *)
ZeroSingles ==
    {<<MkScored(0, st, t, sh, w, r)>> :
        st \in States, t \in {0, 30}, sh \in ZeroShapes \cup ScoreShapes,
        w \in {0, 1}, r \in ScoreRunningVals}

ScoreInputs == StatePairs \cup BootPairs \cup ZeroSingles

ScoreJobs ==
    {[job_id |-> 1, submit_time |-> now, est_run_time |-> BackfillLimit,
      cores |-> sh[1], memory |-> sh[2], disk |-> sh[3]] :
        now \in NowVals, sh \in ScoreDemands}

InitScore ==
    /\ job \in ScoreJobs
    /\ servers \in ScoreInputs
    /\ out = NoOut
    /\ NoSession

(* the backfill score of one server, none when it is no candidate *)
ArasBackfillOf(server, j) ==
    IF ArasIsBackfillCandidate(server, j) THEN ArasBackfillScore(server, j) ELSE NoneVal

DsBackfillOf(server, j) ==
    IF DsIsBackfillCandidate(server, j) THEN DsBackfillScore(server, j) ELSE NoneVal

ScoreAras ==
    /\ out = NoOut
    /\ out' = [op |-> "aras",
               scores |-> [k \in 1..Len(servers) |->
                             calculate_priority_score(servers[k], job, job.submit_time)],
               bonus |-> [k \in 1..Len(servers) |->
                             ArasStateBonus(servers[k], job.submit_time)],
               fit |-> [k \in 1..Len(servers) |->
                             calculate_resource_fit_score(servers[k], job)],
               backfill |-> [k \in 1..Len(servers) |-> ArasBackfillOf(servers[k], job)]]
    /\ UNCHANGED <<job, servers, sessionVars>>

ScoreDs ==
    /\ out = NoOut
    /\ out' = [op |-> "ds",
               scores |-> [k \in 1..Len(servers) |->
                             calculate_priority(servers[k], job, job.submit_time)],
               bonus |-> [k \in 1..Len(servers) |-> DsStateBonus(servers[k])],
               backfill |-> [k \in 1..Len(servers) |-> DsBackfillOf(servers[k], job)]]
    /\ UNCHANGED <<job, servers, sessionVars>>

ScoreCl ==
    /\ out = NoOut
    /\ out' = [op |-> "cl",
               scores |-> [k \in 1..Len(servers) |->
                             calculate_server_score(servers[k], job, job.submit_time)],
               bonus |-> [k \in 1..Len(servers) |->
                             ClStateBonus(servers[k], job.submit_time)],
               waste |-> [k \in 1..Len(servers) |->
                             calculate_resource_waste(servers[k], job)]]
    /\ UNCHANGED <<job, servers, sessionVars>>

NextScore == ScoreAras \/ ScoreDs \/ ScoreCl

SpecScore == InitScore /\ [][NextScore]_vars

(* ------------------------------------------------------------------ *)
(* Properties of the scoring functions                                  *)
(* ------------------------------------------------------------------ *)
Scored == out # NoOut

(* the scored pair is an idle or active server S1 and an inactive S2,  *)
(* both eligible for the job                                            *)
StatePair ==
    /\ Scored
    /\ Len(servers) = 2
    /\ servers[1].state \in {SERVER_STATE_IDLE, SERVER_STATE_ACTIVE}
    /\ servers[2].state = SERVER_STATE_INACTIVE
    /\ Fits(servers[1], job) /\ Fits(servers[2], job)

(* C22: for any job and any two eligible servers S1 and S2, if S1 is   *)
(* idle or active and S2 is inactive, the scoring function gives S1 a   *)
(* strictly higher score than S2, whatever their waiting-job counts,    *)
(* running-job counts and resource fit are (calculate_priority_score,   *)
(* calculate_priority and calculate_server_score).                      *)
C22_StateTermDominates == StatePair => RLess(out.scores[2], out.scores[1])

(* what holds of calculate_server_score: an idle server, or an active   *)
(* one with no waiting job, scores above every inactive server          *)
C22_ClImmediatelyAvailable ==
    (StatePair /\ out.op = "cl" /\ is_immediately_available(servers[1]))
    => RLess(out.scores[2], out.scores[1])

(* what holds of the two ARAS files: with the same number of waiting    *)
(* jobs on both servers the idle or active one scores higher            *)
C22_ArasSameQueue ==
    (StatePair /\ out.op \in {"aras", "ds"}
     /\ servers[1].num_waiting_jobs = servers[2].num_waiting_jobs)
    => RLess(out.scores[2], out.scores[1])

(* src/client.py alone, and the ARAS files alone *)
C22_Cl == (StatePair /\ out.op = "cl") => RLess(out.scores[2], out.scores[1])
C22_Aras == (StatePair /\ out.op \in {"aras", "ds"}) => RLess(out.scores[2], out.scores[1])

(* the scored pair is two booting servers that differ in start time only *)
BootPair ==
    /\ Scored
    /\ Len(servers) = 2
    /\ servers[1].state = SERVER_STATE_BOOTING
    /\ servers[2].state = SERVER_STATE_BOOTING

(* the remaining boot time as each file computes it: bootup_remaining   *)
(* of calculate_priority_score, estimated_delay of                      *)
(* calculate_server_score (computed for a positive start time only)     *)
ArasBootRemaining(server, current_time) ==
    MaxInt(0, DefaultBootup - MaxInt(0, current_time - server.start_time))

ClBootRemaining(server, current_time) == MaxInt(0, server.start_time - current_time)

BootRemaining(k) ==
    IF out.op = "cl" THEN ClBootRemaining(servers[k], job.submit_time)
    ELSE ArasBootRemaining(servers[k], job.submit_time)

BootBonus(k) == IF out.op = "cl" THEN out.bonus[k] ELSE RInt(out.bonus[k][1])

RemainingKnown(k) == out.op = "cl" => servers[k].start_time > 0

(* C23: for a booting server the state bonus added by the scoring      *)
(* function is non-increasing as the remaining boot time grows (all     *)
(* other fields fixed) and is never below a positive floor, for every   *)
(* start_time and current_time (calculate_server_score of src/client.py *)
(* and calculate_priority_score of aras_client.py).                     *)
C23_BootingBonus ==
    (BootPair /\ out.op \in {"aras", "cl"})
    => /\ RLess(RInt(0), BootBonus(1)) /\ RLess(RInt(0), BootBonus(2))
       /\ (RemainingKnown(1) /\ RemainingKnown(2) /\ BootRemaining(1) <= BootRemaining(2))
          => RLeq(BootBonus(2), BootBonus(1))

(* the floor alone and the monotonicity alone, for src/client.py *)
C23_ClFloor ==
    (BootPair /\ out.op = "cl") => RLess(RInt(0), BootBonus(1))

C23_ClMonotone ==
    (BootPair /\ out.op = "cl" /\ RemainingKnown(1) /\ RemainingKnown(2)
     /\ BootRemaining(1) <= BootRemaining(2))
    => RLeq(BootBonus(2), BootBonus(1))

(* what holds: calculate_priority_score of aras_client.py never gives   *)
(* a booting server less than 100 and never more for a longer wait      *)
C23_ArasBonus ==
    (BootPair /\ out.op = "aras")
    => /\ RLeq(RInt(100), BootBonus(1))
       /\ BootRemaining(1) <= BootRemaining(2) => RLeq(BootBonus(2), BootBonus(1))

(* what holds of src/client.py: within the bootup time the bonus does   *)
(* not grow with the delay and is never negative                        *)
C23_ClWithinBootup ==
    (BootPair /\ out.op = "cl" /\ RemainingKnown(1) /\ RemainingKnown(2)
     /\ BootRemaining(1) <= BootRemaining(2) /\ BootRemaining(2) <= DefaultBootup)
    => /\ RLeq(BootBonus(2), BootBonus(1))
       /\ RLeq(RInt(0), BootBonus(2))

(* ------------------------------------------------------------------ *)
(* Tie-break                                                            *)
(* ------------------------------------------------------------------ *)
(* chosen is the key of the first candidate of maximal score: every     *)
(* earlier candidate scores strictly less, no later one scores more     *)
FirstBest(chosen, cand, score) ==
    (\E k \in Indexes : cand[k])
    => \E k \in Indexes :
        /\ cand[k]
        /\ chosen = KeyOf(servers[k])
        /\ \A i \in Indexes :
            cand[i] => /\ i < k => RLess(score[i], score[k])
                       /\ i > k => RLeq(score[i], score[k])

(* the candidates and scores of each selection, as the code forms them *)
ArasBestCand == [k \in Indexes |-> /\ servers[k].state # SERVER_STATE_UNAVAILABLE
                                   /\ RLess(RInt(-1), out.scores[k])]
ArasBackfillCand == [k \in Indexes |-> /\ ~BackfillTooLong(job)
                                       /\ ArasIsBackfillCandidate(servers[k], job)]
ArasBackfillScores == [k \in Indexes |-> ArasBackfillScore(servers[k], job)]
DsBackfillCand == [k \in Indexes |-> /\ ~DsBackfillTooLong(job)
                                     /\ DsIsBackfillCandidate(servers[k], job)]
DsBackfillScores == [k \in Indexes |-> DsBackfillScore(servers[k], job)]
ClCand == [k \in Indexes |-> can_fit_job(servers[k], job)]
MotoCand == [k \in Indexes |-> can_host(servers[k], job.cores, job.memory, job.disk)]
(* client_moto.py keeps the lowest score: compared with the sign changed *)
MotoScores == [k \in Indexes |-> RInt(-MotoScore(servers[k]))]

(* C24: when several candidates share the exact highest score, the      *)
(* decision is the one seen first (earliest in directory insertion      *)
(* order for find_best_server and backfill_candidate, earliest in the   *)
(* input list for select_best_server and moto_choose_server); the       *)
(* decision is a function of the inputs.                                *)
C24_FirstSeenWins ==
    /\ out.op = "aras" => /\ FirstBest(out.fb, ArasBestCand, out.scores)
                          /\ FirstBest(out.bf, ArasBackfillCand, ArasBackfillScores)
    /\ out.op = "ds" => /\ FirstBest(out.fb, ArasBestCand, out.scores)
                        /\ FirstBest(out.bf, DsBackfillCand, DsBackfillScores)
    /\ out.op = "cl" => FirstBest(out.chosen, ClCand, out.scores)
    /\ out.op = "moto" => FirstBest(out.chosen, MotoCand, MotoScores)

(* two candidates share the highest score exactly *)
Tie(cand, score) ==
    /\ Len(servers) = 2
    /\ cand[1] /\ cand[2]
    /\ score[1] = score[2]

(* an exact tie in the backfill list and in find_best_server at once,   *)
(* both decided for the first server                                    *)
C24_Witness ==
    /\ out.op = "aras"
    /\ Tie(ArasBackfillCand, ArasBackfillScores)
    /\ Tie(ArasBestCand, out.scores)
    /\ out.bf = KeyOf(servers[1])
    /\ out.fb = KeyOf(servers[1])

(* the same for select_best_server and for moto_choose_server *)
C24_ClTie == out.op = "cl" /\ Tie(ClCand, out.scores) /\ out.chosen = KeyOf(servers[1])
C24_MotoTie == out.op = "moto" /\ Tie(MotoCand, MotoScores) /\ out.chosen = KeyOf(servers[1])
C24_DsTie ==
    /\ out.op = "ds"
    /\ Tie(DsBackfillCand, DsBackfillScores)
    /\ Tie(ArasBestCand, out.scores)
    /\ out.bf = KeyOf(servers[1])
    /\ out.fb = KeyOf(servers[1])

(* ties between servers that differ in their fields *)
C24_UnlikeTie ==
    /\ out.op \in {"aras", "ds", "cl"}
    /\ Len(servers) = 2
    /\ Fits(servers[1], job) /\ Fits(servers[2], job)
    /\ servers[1].state # SERVER_STATE_UNAVAILABLE
    /\ out.scores[1] = out.scores[2]
    /\ [servers[1] EXCEPT !.server_id = 1] # servers[2]

(* ------------------------------------------------------------------ *)
(* Resource waste                                                       *)
(* ------------------------------------------------------------------ *)
ExactFit(s, j) == s.cores = j.cores /\ s.memory = j.memory /\ s.disk = j.disk

InUnitRange(x) == ~IsInf(x) /\ x # Raised /\ RLeq(RInt(0), x) /\ RLeq(x, RInt(1))

(* the job asks for nothing on an axis where the server has nothing *)
ZeroOnZero(s, j) ==
    \/ s.cores = 0 /\ j.cores = 0
    \/ s.memory = 0 /\ j.memory = 0
    \/ s.disk = 0 /\ j.disk = 0

WasteScored(k) == out.op = "cl" /\ k \in Indexes /\ can_fit_job(servers[k], job)

(* C25: for every job with non-negative integer demands and every      *)
(* server that passes can_fit_job (including a demand of 0 on an axis   *)
(* where the server has 0 available), calculate_resource_waste returns  *)
(* a value in [0,1], and it returns 0 exactly when available equals     *)
(* demand on all three axes.                                            *)
C25_WasteRange ==
    \A k \in 1..2 :
        WasteScored(k)
        => /\ InUnitRange(out.waste[k])
           /\ out.waste[k] = RInt(0) <=> ExactFit(servers[k], job)

(* what holds: the range and the zero case when no axis is 0 on both sides *)
C25_PositiveTotals ==
    \A k \in 1..2 :
        (WasteScored(k) /\ ~ZeroOnZero(servers[k], job))
        => /\ InUnitRange(out.waste[k])
           /\ out.waste[k] = RInt(0) <=> ExactFit(servers[k], job)

(* and the value returned when some axis is 0 on both sides *)
C25_ZeroAxisInf ==
    \A k \in 1..2 :
        (WasteScored(k) /\ ZeroOnZero(servers[k], job)) => out.waste[k] = Inf

C25_ZeroAxisReached == WasteScored(1) /\ ZeroOnZero(servers[1], job) /\ ExactFit(servers[1], job)
C25_ExactFitReached == WasteScored(1) /\ ~ZeroOnZero(servers[1], job) /\ ExactFit(servers[1], job)

(* ------------------------------------------------------------------ *)
(* Division safety                                                      *)
(* ------------------------------------------------------------------ *)
(* a value the function returned: a finite number or float('inf') *)
IsNumber(x) == x # Raised /\ (x[2] > 0 \/ x = Inf)

IsNumberOrNone(x) == x = NoneVal \/ IsNumber(x)

(* C30: for every server record and job with non-negative integer      *)
(* fields (zeros included on any axis) the scoring functions and the    *)
(* backfill scoring never divide by zero: calculate_resource_fit_score, *)
(* calculate_priority_score, calculate_priority, backfill_candidate,    *)
(* calculate_resource_waste and calculate_server_score always return a  *)
(* number.                                                              *)
C30_DivisionSafety ==
    Scored
    => \A k \in Indexes :
        /\ IsNumber(out.scores[k])
        /\ out.op = "aras" => IsNumber(out.fit[k]) /\ IsNumberOrNone(out.backfill[k])
        /\ out.op = "ds" => IsNumberOrNone(out.backfill[k])
        /\ out.op = "cl" => IsNumber(out.waste[k])

ZeroCapacity(s) == s.cores = 0 /\ s.memory = 0 /\ s.disk = 0

(* a server with nothing available on any axis scored for a job that   *)
(* asks for nothing, as a backfill candidate too                        *)
C30_Witness ==
    /\ out.op = "aras"
    /\ ZeroCapacity(servers[1])
    /\ ExactFit(servers[1], job)
    /\ out.backfill[1] # NoneVal
    /\ IsNumber(out.fit[1])
    /\ IsNumber(out.scores[1])

C30_ClZero == out.op = "cl" /\ ZeroCapacity(servers[1]) /\ ExactFit(servers[1], job)
C30_DsZero == out.op = "ds" /\ ZeroCapacity(servers[1]) /\ out.backfill[1] # NoneVal
C30_PartZero ==
    /\ Scored
    /\ servers[1].cores = 0 /\ servers[1].memory > 0
    /\ Fits(servers[1], job)

(* ------------------------------------------------------------------ *)
(* Record specification: one record line, with or without a leading    *)
(* SENT token and extra fields, handed to each file's record parser     *)
(* ------------------------------------------------------------------ *)
RecShapes == {<<1, 1, 1>>, <<2, 4, 8>>}
RecLoads == {<<0, 0>>, <<1, 2>>}
RecStates == {SERVER_STATE_IDLE, SERVER_STATE_ACTIVE, SERVER_STATE_BOOTING}

Canonicals ==
    {[type_name |-> TypeName, server_id |-> id, state |-> st, start_time |-> id * 3,
      cores |-> sh[1], memory |-> sh[2], disk |-> sh[3],
      num_waiting_jobs |-> ld[1], num_running_jobs |-> ld[2]] :
        id \in {0, 1}, st \in RecStates, sh \in RecShapes, ld \in RecLoads}

(* the nine canonical fields of a record *)
CanonFields(c) ==
    <<c.type_name, IntToStr(c.server_id), c.state, IntToStr(c.start_time),
      IntToStr(c.cores), IntToStr(c.memory), IntToStr(c.disk),
      IntToStr(c.num_waiting_jobs), IntToStr(c.num_running_jobs)>>

(* total cores, memory and disk of the server *)
ExtraFields == <<(<<"8">>), (<<"1", "6">>), (<<"3", "2">>)>>

Forms == {"plain", "sent", "after", "sent-after", "before", "sent-before"}

FormFields(c, form) ==
    (IF form \in {"sent", "sent-after", "sent-before"} THEN <<T_SENT>> ELSE <<>>)
    \o (IF form \in {"before", "sent-before"} THEN ExtraFields ELSE <<>>)
    \o CanonFields(c)
    \o (IF form \in {"after", "sent-after"} THEN ExtraFields ELSE <<>>)

RecordLine(c, form) == Join(FormFields(c, form), " ")

InitRecord ==
    /\ job = AnyJob
    /\ servers = <<>>
    /\ \E c \in Canonicals, form \in Forms :
        out = [op |-> "line", canon |-> c, form |-> form, line |-> RecordLine(c, form)]
    /\ NoSession

(* the record a parser made of the line, and whether it raised instead *)
Parsed(op, rec, raised, plain) ==
    [op |-> op, canon |-> out.canon, form |-> out.form, line |-> out.line,
     rec |-> rec, raised |-> raised, plain |-> plain]

(* parse_gets_response of the ARAS files on a block holding the line *)
ArasRecord(line) ==
    LET r == parse_gets_response(<<>>, BlockText(<<line>>)) IN
    IF r.servers = <<>> THEN NoneVal ELSE r.servers[1]

RecordAras ==
    /\ out.op = "line"
    /\ servers' = parse_gets_response(servers, BlockText(<<out.line>>)).dir
    /\ out' = Parsed("aras", ArasRecord(out.line), FALSE,
                     ArasRecord(RecordLine(out.canon, "plain")))
    /\ UNCHANGED <<job, sessionVars>>

(* parse_server_info of src/client.py *)
ClRecord(line) == IF ParseRaises(line) THEN NoneVal ELSE parse_server_info(line)

RecordCl ==
    /\ out.op = "line"
    /\ out' = Parsed("cl", ClRecord(out.line), ParseRaises(out.line),
                     ClRecord(RecordLine(out.canon, "plain")))
    /\ UNCHANGED <<job, servers, sessionVars>>

(* ServerInfo(parts) of client_moto.py: none stands for the exception *)
RecordMoto ==
    /\ out.op = "line"
    /\ out' = Parsed("moto", MotoServerInfo(Words(out.line)),
                     MotoServerInfo(Words(out.line)) = NoneVal,
                     MotoServerInfo(Words(RecordLine(out.canon, "plain"))))
    /\ UNCHANGED <<job, servers, sessionVars>>

NextRecord == RecordAras \/ RecordCl \/ RecordMoto

SpecRecord == InitRecord /\ [][NextRecord]_vars

(* ------------------------------------------------------------------ *)
(* Tolerance of the record parsers                                      *)
(* ------------------------------------------------------------------ *)
RecordParsed == out.op \in {"aras", "cl", "moto"}

(* C26: a record line with a leading SENT token is parsed into the same *)
(* server record (type, id, state, start time, cores, memory, disk,     *)
(* waiting, running) as the same line without that token, in every      *)
(* variant's record parser (parse_gets_response, parse_server_info,     *)
(* client_moto ServerInfo).                                             *)
C26_SentPrefixTolerated ==
    (RecordParsed /\ out.form = "sent") => (~out.raised /\ out.rec = out.plain)

(* what holds: parse_gets_response alone *)
C26_ArasParser ==
    (out.op = "aras" /\ out.form = "sent") => (out.rec = out.plain /\ out.rec # NoneVal)

(* and the line without the token gives the canonical record in each parser *)
C26_PlainParsed ==
    (RecordParsed /\ out.form = "plain")
    => /\ ~out.raised
       /\ out.rec # NoneVal
       /\ out.rec.type_name = out.canon.type_name
       /\ out.rec.cores = out.canon.cores
       /\ out.rec.memory = out.canon.memory
       /\ out.rec.disk = out.canon.disk
       /\ out.rec.num_waiting_jobs = out.canon.num_waiting_jobs
       /\ out.rec.num_running_jobs = out.canon.num_running_jobs
       /\ out.op = "aras" => out.rec = out.canon

(* src/client.py and client_moto.py on a SENT line *)
C26_ClRaises == (out.op = "cl" /\ out.form = "sent") => out.raised
C26_MotoRaises == (out.op = "moto" /\ out.form = "sent") => out.raised

(* the line carries extra fields, after or before the canonical nine *)
ExtraForm == out.form \in {"after", "sent-after", "before", "sent-before"}

(* C27: a record line that carries extra total-capacity fields in       *)
(* addition to the 9 canonical fields is parsed by parse_gets_response  *)
(* into a server record whose type, id, state, start time, available    *)
(* cores, memory, disk, waiting and running values equal those of the   *)
(* 9 canonical fields.                                                  *)
C27_ExtraFieldsTolerated == (out.op = "aras" /\ ExtraForm) => out.rec = out.canon

(* what holds: extra fields that follow the canonical nine are ignored *)
C27_TrailingExtras ==
    (out.op = "aras" /\ out.form \in {"after", "sent-after"}) => out.rec = out.canon

(* and a line with the extra fields in front gives no record at all *)
C27_LeadingExtrasDropped ==
    (out.op = "aras" /\ out.form \in {"before", "sent-before"})
    => (out.rec = NoneVal /\ servers = <<>>)

(* ------------------------------------------------------------------ *)
(* Refresh of the directory                                             *)
(* ------------------------------------------------------------------ *)
Refreshed == out.op = "parse" /\ out.n > 0

(* the places of key in a list of records *)
PlacesOf(key, recs) == {i \in 1..Len(recs) : KeyOf(recs[i]) = key}

LastPlace(S) == CHOOSE i \in S : \A j \in S : j <= i

(* the well-formed records of the block just parsed *)
BlockRecords == out.parsed

AllKeys == {KeyOf(servers[i]) : i \in 1..Len(servers)}
           \cup {KeyOf(out.before[i]) : i \in 1..Len(out.before)}
           \cup {KeyOf(BlockRecords[i]) : i \in 1..Len(BlockRecords)}

(* the entry of key in a directory, none when it has no entry; a key    *)
(* has at most one entry                                                *)
EntryOf(key, dir) ==
    IF PlacesOf(key, dir) = {} THEN NoneVal ELSE dir[LastPlace(PlacesOf(key, dir))]

(* C28: after parse_gets_response(B), for every key (type, id) with a   *)
(* well-formed record in B the directory value has exactly the fields   *)
(* of the last such record in B (no field kept from an earlier          *)
(* refresh), and for every key with no well-formed record in B the      *)
(* directory entry is unchanged (neither removed nor modified).          *)
C28_ReplaceNotMerge ==
    Refreshed
    => \A key \in AllKeys :
        /\ Cardinality(PlacesOf(key, servers)) <= 1
        /\ IF PlacesOf(key, BlockRecords) # {}
           THEN EntryOf(key, servers) = BlockRecords[LastPlace(PlacesOf(key, BlockRecords))]
           ELSE /\ EntryOf(key, servers) = EntryOf(key, out.before)
                /\ PlacesOf(key, servers) = PlacesOf(key, out.before)

(* the second refresh replaced the entry of one key by a record with    *)
(* other field values, twice in the block, and left the entry of a key  *)
(* the block does not mention                                           *)
C28_Witness ==
    /\ out.op = "parse" /\ out.n = 2
    /\ Len(out.before) = 2 /\ Len(servers) = 2
    /\ Len(BlockRecords) = 2
    /\ KeyOf(BlockRecords[1]) = KeyOf(out.before[1])
    /\ KeyOf(BlockRecords[2]) = KeyOf(out.before[1])
    /\ BlockRecords[1] # BlockRecords[2]
    /\ BlockRecords[2] # out.before[1]
    /\ servers[1] = BlockRecords[2]
    /\ servers[2] = out.before[2]

(* ------------------------------------------------------------------ *)
(* Decisions and the snapshot they are taken from                       *)
(* ------------------------------------------------------------------ *)
(* a session of two jobs in which every read returned all that had      *)
(* arrived: the bulk reply number n answers the query for job n          *)
TwoJobsRun == sim.on /\ sim.scen.name \in {"twojobs", "twojobs-eager"} /\ hist.shorts = 0

(* the (type, id) texts of the records listed in bulk reply number n *)
ListedIn(n) ==
    {<<Words(RecsOf(sim.scen, n)[i])[1], Words(RecsOf(sim.scen, n)[i])[2]>> :
        i \in 1..Len(RecsOf(sim.scen, n))}

(* the SCHD commands sent for the job with this id *)
SchdFor(id) ==
    {i \in 1..Len(sent) : StartsWith(sent[i], T_SCHD) /\ Words(sent[i])[2] = id}

ServerNamed(i) == <<Words(sent[i])[3], Words(sent[i])[4]>>

(* C29: over any sequence of jobs in one session, the server named in  *)
(* the SCHD command for a job is always a server that was listed in the *)
(* bulk block received for that job's GETS query, never a server known  *)
(* only from an earlier job's refresh.                                  *)
C29_CurrentSnapshot ==
    TwoJobsRun
    => /\ \A i \in SchdFor(<<"1">>) : ServerNamed(i) \in ListedIn(1)
       /\ \A i \in SchdFor(<<"2">>) : ServerNamed(i) \in ListedIn(2)

(* what holds: src/client.py and client_moto.py decide on the list they *)
(* built from the reply to this job's query                             *)
C29_ClMoto == (TwoJobsRun /\ variant \in {"cl", "moto"})
              => /\ \A i \in SchdFor(<<"1">>) : ServerNamed(i) \in ListedIn(1)
                 /\ \A i \in SchdFor(<<"2">>) : ServerNamed(i) \in ListedIn(2)

(* and the server ds-test/client.py names is one of its directory *)
C29_DsFromDirectory ==
    (TwoJobsRun /\ variant = "ds")
    => \A i \in 1..Len(sent) :
        StartsWith(sent[i], T_SCHD) => ServerNamed(i) \in ListedIn(1) \cup ListedIn(2)

C29_ClMotoSecondSchd ==
    TwoJobsRun /\ variant \in {"cl", "moto"} /\ SchdFor(<<"2">>) # {}

(* ------------------------------------------------------------------ *)
(* find_best_server and the eligible servers                            *)
(* ------------------------------------------------------------------ *)
SomeEligible == \E k \in Indexes : Eligible(servers[k], job)

(* C31: if the directory holds at least one server that passes the     *)
(* eligibility filter for the job (not unavailable, enough cores,       *)
(* memory and disk), find_best_server returns a server and not none,    *)
(* for any waiting-job and running-job counts (both ARAS files).        *)
C31_FindsEligible ==
    (out.op \in {"aras", "ds"} /\ SomeEligible) => out.fb # NoneVal

(* what holds: find_best_server returns none only if every eligible     *)
(* server scores -1 or less, and a server it returns is eligible        *)
C31_NoneOnlyBelowSentinel ==
    (out.op \in {"aras", "ds"} /\ SomeEligible /\ out.fb = NoneVal)
    => \A k \in Indexes : Eligible(servers[k], job) => RLeq(out.scores[k], RInt(-1))

(* with no waiting job and no running job on an eligible server the     *)
(* function does return a server                                        *)
C31_UnloadedFound ==
    (out.op \in {"aras", "ds"}
     /\ \E k \in Indexes : /\ Eligible(servers[k], job)
                           /\ servers[k].num_waiting_jobs = 0
                           /\ servers[k].num_running_jobs = 0)
    => out.fb # NoneVal

C31_AllEligibleNone ==
    /\ out.op \in {"aras", "ds"}
    /\ Len(servers) = 2
    /\ \A k \in Indexes : Eligible(servers[k], job)
    /\ out.fb = NoneVal


(* ---- every placeable job is placed once ---- *)

(* sessions whose job lines have eight tokens and the demand 1 1 1 and   *)
(* whose every bulk reply is a well-formed block with a server that      *)
(* passes the eligibility filter for that demand                         *)
PlaceableRun ==
    sim.on /\ sim.scen.name \in {"job8", "jobp", "twojobs", "twojobs-eager"}

IsJobLine(line) == StartsWith(line, T_JOBN) \/ StartsWith(line, T_JOBP)

(* the line the simulator sends in answer to the n-th REDY *)
AnswerTo(n) == IF n <= Len(sim.scen.events) THEN sim.scen.events[n] ELSE T_NONE

RedysUpTo(i) == Cardinality({m \in 1..i : sent[m] = T_REDY})

(* positions i < j of two REDY messages with no REDY between them *)
ConsecutiveRedys(i, j) ==
    /\ i < j /\ sent[i] = T_REDY /\ sent[j] = T_REDY
    /\ \A m \in (i + 1)..(j - 1) : sent[m] # T_REDY

SchdBetween(i, j) == {m \in (i + 1)..(j - 1) : StartsWith(sent[m], T_SCHD)}

(* exactly one SCHD between the two REDY messages, and it names the job  *)
(* of the line that answered the first of them                          *)
PlacedOnce(i, j) ==
    /\ Cardinality(SchdBetween(i, j)) = 1
    /\ \A m \in SchdBetween(i, j) :
          Words(sent[m])[2] = Words(AnswerTo(RedysUpTo(i)))[3]

JobTurns ==
    {p \in (1..Len(sent)) \X (1..Len(sent)) :
        ConsecutiveRedys(p[1], p[2]) /\ IsJobLine(AnswerTo(RedysUpTo(p[1])))}

(* C32 (Every placeable job is placed once): for every JOBN or JOBP the  *)
(* client receives whose GETS reply is a valid bulk block listing at     *)
(* least one eligible server, the client emits exactly one SCHD for that *)
(* job before it sends the next REDY.  Stated on the messages sent so    *)
(* far, in sessions where the client has sent no message ahead of the    *)
(* reply to an earlier one, so that the answer to each REDY is the line  *)
(* the client read for it: between a REDY answered by a job line and the *)
(* REDY after it lies exactly one SCHD, with that job's id.              *)
C32_PlacedOnce ==
    (PlaceableRun /\ ~hist.early) => \A p \in JobTurns : PlacedOnce(p[1], p[2])

(* the same statement when every read returns all that has arrived *)
C32_WholeReads ==
    (PlaceableRun /\ hist.shorts = 0) => \A p \in JobTurns : PlacedOnce(p[1], p[2])

(* the same statement for ds-test/client.py *)
C32_DsPlacedOnce ==
    (PlaceableRun /\ variant = "ds") => \A p \in JobTurns : PlacedOnce(p[1], p[2])

(* the same statement for src/client.py when every read returns all that *)
(* has arrived                                                           *)
C32_ClWholeReads ==
    (PlaceableRun /\ variant = "cl" /\ hist.shorts = 0)
        => \A p \in JobTurns : PlacedOnce(p[1], p[2])

(* aras_client.py sends no SCHD at all when every read returns all that  *)
(* has arrived                                                           *)
C32_ArasNoSchd ==
    (PlaceableRun /\ variant = "aras" /\ hist.shorts = 0)
        => \A m \in 1..Len(sent) : ~StartsWith(sent[m], T_SCHD)

(* a session in which a job's turn is over *)
C32_TurnOver == PlaceableRun /\ JobTurns # {}

(* a ds-test/client.py session in which both jobs' turns are over *)
C32_DsBothTurns == PlaceableRun /\ variant = "ds" /\ Cardinality(JobTurns) = 2


(* ---- the session ends only on a termination signal ---- *)

QuitSent == \E m \in 1..Len(sent) : sent[m] = T_QUIT

(* the client has read the line NONE to its end, the simulator is one    *)
(* that closes the connection in mid-session, or it has fallen silent so *)
(* that a read with a timeout runs out                                   *)
TerminationSignal == hist.noneAt >= 0 \/ sim.scen.closes \/ sim.stalled

(* a line that is neither a termination signal nor a job *)
OtherLine(line) ==
    /\ ~Contains(line, T_NONE) /\ ~Contains(line, T_QUIT)
    /\ ~IsJobLine(line)

(* the whole reply to the last REDY is on the connection and the client  *)
(* is about to read it                                                   *)
DsAtReply == variant = "ds" /\ pc = "D_redy" /\ HasNL(wire)
ArasAtReply ==
    variant = "aras" /\ pc = "A_redy" /\ loc.buffer = <<>> /\ HasNL(wire) /\ inbox = <<>>

(* C33 (The session ends only on a termination signal): the session     *)
(* loop stops, and QUIT is sent, only after the client received NONE,    *)
(* the connection closed or a read timed out; any other line in answer   *)
(* to REDY, including an empty line, a JCPL and a resource failure or    *)
(* recovery notice, leaves the session running and leads to another      *)
(* REDY.  Stated for ds-test/client.py and aras_client.py: a session     *)
(* that has sent QUIT has had a termination signal, and the step that    *)
(* reads such a line sends REDY and nothing else.                        *)
C33_EndsOnlyOnSignal ==
    (sim.on /\ variant \in {"ds", "aras"})
    => /\ QuitSent => TerminationSignal
       /\ (DsAtReply /\ OtherLine(read_line.line[1]))
             => DsOnRedy(read_line.line, Cs0).outq = <<T_REDY>>
       /\ (ArasAtReply /\ OtherLine(Split1(wire, NL)[1]))
             => ArasOnChunk(SubSeq(wire, 1, IndexOf(wire, NL, 1)), Cs0).outq = <<T_REDY>>

(* the same statement for the lines that are not empty, in sessions in   *)
(* which the simulator sends no empty line and no read has left part of  *)
(* a reply behind                                                        *)
C33_NonEmptyLines ==
    (sim.on /\ variant \in {"ds", "aras"})
    => /\ (QuitSent /\ sim.scen.name # "notices" /\ hist.shorts = 0) => TerminationSignal
       /\ (DsAtReply /\ OtherLine(read_line.line[1]) /\ Strip(read_line.line[1]) # <<>>)
             => DsOnRedy(read_line.line, Cs0).outq = <<T_REDY>>
       /\ (ArasAtReply /\ OtherLine(Split1(wire, NL)[1]) /\ Split1(wire, NL)[1] # <<>>)
             => ArasOnChunk(SubSeq(wire, 1, IndexOf(wire, NL, 1)), Cs0).outq = <<T_REDY>>

(* an empty line in answer to REDY ends the session of both files: the   *)
(* step that reads it sends QUIT and goes to the end                     *)
C33_EmptyLineQuits ==
    /\ (sim.on /\ DsAtReply /\ read_line.line[1] = <<>>)
          => Alike(DsOnRedy(read_line.line, Cs0), DsQuit(Cs0))
    /\ (sim.on /\ ArasAtReply /\ Head(wire) = NL)
          => ArasOnChunk(<<NL>>, Cs0).outq = <<T_QUIT>>

(* a session that has sent QUIT with lines still to come and no           *)
(* termination signal                                                    *)
C33_QuitWithoutSignal ==
    sim.on /\ variant \in {"ds", "aras"} /\ sim.scen.name = "notices"
    /\ QuitSent /\ ~TerminationSignal /\ sim.events # <<>>

(* a session in which the two resource notices were each answered with   *)
(* REDY                                                                  *)
C33_NoticesAnswered ==
    sim.on /\ variant \in {"ds", "aras"} /\ sim.scen.name = "notices"
    /\ RedysUpTo(Len(sent)) = 3 /\ hist.shorts = 0 /\ ~QuitSent

====
